---- MODULE Spec2Model ----
(***************************************************************************)
(* A model of the error package of github.com/focela/loom (pkg/errors and  *)
(* pkg/errors/code): the Error chain, its constructors, the accessors      *)
(* Code, Cause, Unwrap, Equal, Error, Format and Stack.                    *)
(*                                                                         *)
(* Error values live in `heap`; a reference is an index into it and Nil is *)
(* the nil error.  Strings are sequences of tokens, so that concatenation, *)
(* strings.Join, strings.Contains and strings.HasPrefix are computed.      *)
(*                                                                         *)
(* The stack mode is read at process start by the init function of package *)
(* core through package command (internal/command), whose parser of the    *)
(* command line is modelled with it.                                       *)
(*                                                                         *)
(* The module also models the mutex wrappers (packages mutex, lock and     *)
(* rwmutex), shared by goroutines whose positions are in `pc`, and the     *)
(* ReadCloser of package utils.                                            *)
(***************************************************************************)
EXTENDS Integers, Sequences, FiniteSets, TLC

VARIABLES
    heap,                 \* the error values created so far (Error and foreign errors)
    last,                 \* the most recent call: its name, arguments and result
    stackModeConfigured,  \* "brief" or "detail", set once at process start
    goRootForFilter,      \* runtime.GOROOT(), normalised; <<>> when unknown
    started,              \* the init functions of the packages have run
    commandRev,           \* which revision of package command is built
    osArgs,               \* os.Args
    environ,              \* the environment: a function from names to values
    defaultParsedArgs,    \* command: the positional arguments parsed
    defaultParsedOptions, \* command: the options parsed, name to value
    initialized,          \* command: the flag of its second revision
    predefinedCodes,      \* code: the package variables CodeNil, CodeNotFound, ...
    mu,                   \* the Mutex or RWMutex the goroutines share
    newArgs,              \* the arguments its New was called with
    pc,                   \* each goroutine's position with respect to mu
    fatal,                \* the runtime has stopped the process with a fatal error
    ioRev,                \* which revision of ReadCloser is built
    rc,                   \* the ReadCloser: index, content, repeatable
    got                   \* the bytes the Read calls have returned so far

cmdVars == <<commandRev, osArgs, environ, defaultParsedArgs, defaultParsedOptions, initialized>>
syncVars == <<mu, newArgs, pc, fatal>>
ioVars == <<ioRev, rc, got>>
auxVars == <<syncVars, ioVars>>
envVars == <<stackModeConfigured, goRootForFilter, started, cmdVars, predefinedCodes, auxVars>>
vars == <<heap, last, envVars>>

\* How many error values one behaviour creates.
MaxErrors == 3
MaxChain == 2

\* The nil error.
Nil == 0

Min(a, b) == IF a < b THEN a ELSE b

----------------------------------------------------------------------------
(* Strings                                                                 *)

\* strings.Contains(s, substr)
Contains(s, substr) ==
    \E i \in 0..(Len(s) - Len(substr)) : SubSeq(s, i + 1, i + Len(substr)) = substr

\* strings.HasPrefix(s, prefix)
HasPrefix(s, prefix) ==
    Len(s) >= Len(prefix) /\ SubSeq(s, 1, Len(prefix)) = prefix

commaSeparatorSpace == <<",", " ">>

\* strings.Join(elems, sep)
RECURSIVE Join(_, _)
Join(elems, sep) ==
    IF Len(elems) = 0 THEN <<>>
    ELSE IF Len(elems) = 1 THEN elems[1]
    ELSE elems[1] \o sep \o Join(Tail(elems), sep)

\* fmt.Sprintf(format, args...) for formats made of literal tokens and the
\* verb "%s", and string arguments: a verb without an argument prints
\* %!s(MISSING), arguments left over are reported as %!(EXTRA ...).
RECURSIVE SprintfExtra(_)
SprintfExtra(args) ==
    IF Len(args) = 0 THEN <<>>
    ELSE <<"string=">> \o args[1]
         \o (IF Len(args) > 1 THEN commaSeparatorSpace ELSE <<>>)
         \o SprintfExtra(Tail(args))

RECURSIVE Sprintf(_, _)
Sprintf(format, args) ==
    IF Len(format) = 0
    THEN IF Len(args) = 0 THEN <<>>
         ELSE <<"%!(EXTRA ">> \o SprintfExtra(args) \o <<")">>
    ELSE IF format[1] = "%s"
         THEN IF Len(args) = 0
              THEN <<"%!s(MISSING)">> \o Sprintf(Tail(format), args)
              ELSE args[1] \o Sprintf(Tail(format), Tail(args))
         ELSE <<format[1]>> \o Sprintf(Tail(format), args)

----------------------------------------------------------------------------
(* Package command: the parser of the command line                         *)

\* internal/command/command.go holds two revisions of the package: the
\* first tells an initialised parser by its holding arguments or options,
\* the second by the flag `initialized`.
Revisions == {"first", "second"}

\* The tokens of [\w\?\.\-]+ that occur in a command line; "-" is one of
\* them, and a token is never split: a dash and "=" are tokens of their own.
NameTokens ==
    {"-", "app", "a", "b", "x", "1", "0", "true", "brief", "detail", "Detail",
     "loom.error.brief", "loom.error.stack.mode"}

\* How many tokens from position i on belong to [\w\?\.\-].
RECURSIVE NameRun(_, _)
NameRun(arg, i) ==
    IF i <= Len(arg) /\ arg[i] \in NameTokens THEN 1 + NameRun(arg, i + 1) ELSE 0

\* argumentOptionRegex.FindStringSubmatch(arg) for
\* ^\-{1,2}([\w\?\.\-]+)(=){0,1}(.*)$ : whether arg matches and the three
\* groups.  The dashes take two where a name is left after them, else one.
FindStringSubmatch(arg) ==
    LET none == [ok |-> FALSE, name |-> <<>>, eq |-> <<>>, rest |-> <<>>]
        from ==
            IF Len(arg) >= 3 /\ arg[1] = "-" /\ arg[2] = "-" /\ arg[3] \in NameTokens THEN 3
            ELSE IF Len(arg) >= 2 /\ arg[1] = "-" /\ arg[2] \in NameTokens THEN 2
            ELSE 0
    IN IF from = 0 THEN none
       ELSE LET n == NameRun(arg, from)
                after == from + n
                isEq == after <= Len(arg) /\ arg[after] = "="
            IN [ok |-> TRUE,
                name |-> SubSeq(arg, from, after - 1),
                eq |-> IF isEq THEN <<"=">> ELSE <<>>,
                rest |-> SubSeq(arg, IF isEq THEN after + 1 ELSE after, Len(arg))]

\* m[k] = v of a Go map.
MapSet(m, k, v) == [n \in DOMAIN m \cup {k} |-> IF n = k THEN v ELSE m[n]]

\* make(map[string]string)
EmptyMap == [n \in {} |-> <<>>]

\* The loop of ParseUsingDefaultAlgorithm from index i (counted from 1).
RECURSIVE ParseLoop(_, _, _, _)
ParseLoop(args, i, parsedArgs, parsedOptions) ==
    IF i > Len(args) THEN [args |-> parsedArgs, options |-> parsedOptions]
    ELSE LET array == FindStringSubmatch(args[i]) IN
         IF array.ok
         THEN IF array.eq = <<"=">>
              THEN ParseLoop(args, i + 1, parsedArgs,
                             MapSet(parsedOptions, array.name, array.rest))
              ELSE IF i < Len(args) /\ (Len(args[i + 1]) = 0 \/ args[i + 1][1] # "-")
                   THEN ParseLoop(args, i + 2, parsedArgs,
                                  MapSet(parsedOptions, array.name, args[i + 1]))
                   ELSE ParseLoop(args, i + 1, parsedArgs,
                                  MapSet(parsedOptions, array.name, array.rest))
         ELSE ParseLoop(args, i + 1, Append(parsedArgs, args[i]), parsedOptions)

ParseUsingDefaultAlgorithm(args) == ParseLoop(args, 1, <<>>, EmptyMap)

\* The state of the default parser.
Parser == [args |-> defaultParsedArgs, options |-> defaultParsedOptions,
           initialized |-> initialized]

\* Mutant: Init without arguments parses os.Args again every time.
Command_Init_Reparses(st, args) ==
    LET r == ParseUsingDefaultAlgorithm(IF Len(args) = 0 THEN osArgs ELSE args)
    IN [args |-> r.args, options |-> r.options, initialized |-> commandRev = "second"]

\* Init(args...) on parser state st: the state it leaves.
Command_Init(st, args) ==
    LET done == IF commandRev = "first"
                THEN Len(st.args) > 0 \/ DOMAIN st.options # {}
                ELSE st.initialized
        parsed(a) == LET r == ParseUsingDefaultAlgorithm(a)
                     IN [args |-> r.args, options |-> r.options,
                         initialized |-> commandRev = "second"]
    IN IF Len(args) = 0
       THEN (IF done THEN st ELSE parsed(osArgs))
       ELSE parsed(args)

\* ensureInitialized of the second revision; the getters of the first
\* call Init() themselves.
ensureInitialized(st) ==
    IF commandRev = "second" /\ st.initialized THEN st ELSE Command_Init(st, <<>>)

\* The value an optional default argument list def gives: def[0] or "".
FirstOr(def) == IF Len(def) > 0 THEN def[1] ELSE <<>>

\* ContainsOpt(name) and GetOpt(name, def...) on the state the getter has
\* ensured.
ContainsOpt(st, name) == name \in DOMAIN ensureInitialized(st).options

GetOpt(st, name, def) ==
    LET o == ensureInitialized(st).options
    IN IF name \in DOMAIN o THEN o[name] ELSE FirstOr(def)

\* GetArg(index, def...): a negative index passes the test
\* index < len(defaultParsedArgs) and the indexing panics.
GetArg(st, index, def) ==
    LET a == ensureInitialized(st).args
    IN IF index < Len(a)
       THEN (IF index < 0 THEN [panic |-> TRUE, value |-> <<>>]
             ELSE [panic |-> FALSE, value |-> a[index + 1]])
       ELSE [panic |-> FALSE, value |-> FirstOr(def)]

\* strings.ToLower(strings.ReplaceAll(key, "_", ".")) and
\* strings.ToUpper(strings.ReplaceAll(key, ".", "_")) of the keys in use.
CmdKey(key) ==
    CASE key = "loom.error.brief" -> <<"loom.error.brief">>
      [] key = "loom.error.stack.mode" -> <<"loom.error.stack.mode">>

EnvKey(key) ==
    CASE key = "loom.error.brief" -> "LOOM_ERROR_BRIEF"
      [] key = "loom.error.stack.mode" -> "LOOM_ERROR_STACK_MODE"

\* GetOptWithEnv(key, def...)
GetOptWithEnv(st, key, def) ==
    IF ContainsOpt(st, CmdKey(key)) THEN GetOpt(st, CmdKey(key), <<>>)
    ELSE IF EnvKey(key) \in DOMAIN environ THEN environ[EnvKey(key)]
    ELSE FirstOr(def)

----------------------------------------------------------------------------
(* Package core: the stack mode                                            *)

commandEnvKeyForBrief == "loom.error.brief"
commandEnvKeyForStackMode == "loom.error.stack.mode"

\* Mutant: the deprecated brief setting is applied after the mode setting.
ConfiguredStackMode_BriefLast(st, mode) ==
    LET briefSetting == GetOptWithEnv(st, commandEnvKeyForBrief, <<>>)
        stackModeSetting ==
            GetOptWithEnv(ensureInitialized(st), commandEnvKeyForStackMode, <<>>)
        afterMode == IF stackModeSetting = <<"brief">> THEN "brief"
                     ELSE IF stackModeSetting = <<"detail">> THEN "detail"
                     ELSE mode
    IN IF briefSetting \in {<<"1">>, <<"true">>} THEN "brief" ELSE afterMode

\* The init function of package core: the stack mode it configures, given
\* the mode the variable holds (its initialiser is StackModeBrief).
ConfiguredStackMode(st, mode) ==
    LET briefSetting == GetOptWithEnv(st, commandEnvKeyForBrief, <<>>)
        afterBrief == IF briefSetting \in {<<"1">>, <<"true">>} THEN "brief" ELSE mode
        stackModeSetting ==
            GetOptWithEnv(ensureInitialized(st), commandEnvKeyForStackMode, <<>>)
    IN IF stackModeSetting = <<"brief">> THEN "brief"
       ELSE IF stackModeSetting = <<"detail">> THEN "detail"
       ELSE afterBrief

----------------------------------------------------------------------------
(* Codes (pkg/errors/code)                                                 *)

\* A localCode value.
localCode(c, m, d) == [isNil |-> FALSE, code |-> c, message |-> m, detail |-> d]

\* The nil Code interface value (no localCode behind it).
NoCode == [isNil |-> TRUE, code |-> 0, message |-> <<>>, detail |-> "nil"]

CodeNil == localCode(-1, <<>>, "nil")
CodeNotFound == localCode(65, <<"Not Found">>, "nil")
CodeInternalError == localCode(50, <<"Internal Error">>, "nil")

\* The initial values of the package variables of package code.
PredefinedCodes ==
    [CodeNil |-> CodeNil, CodeNotFound |-> CodeNotFound,
     CodeInternalError |-> CodeInternalError]

\* code.New(code, message, detail)
code_New(c, m, d) == localCode(c, m, d)

\* code.WithCode(code, detail): the methods Code() and Message() of a nil
\* Code cannot be called.
WithCode(code, detail) ==
    IF code.isNil THEN [panic |-> TRUE]
    ELSE localCode(code.code, code.message, detail)

----------------------------------------------------------------------------
(* Error values                                                            *)

\* kind "Error" is *Error; the other kinds are errors of other packages:
\*   plain      only Error()                  (errors.New)
\*   coder      Error() and Code()
\*   unwrapper  Error() and Unwrap()          (fmt.Errorf with %w)
\*   causer     Error() and Cause()           (github.com/pkg/errors)
\*   equaler    Error() and Equal(target)
\*   currenter  Error() and Current()
ForeignKinds == {"plain", "coder", "unwrapper", "causer", "equaler", "currenter"}

Error(error, stack, text, code) ==
    [kind |-> "Error", error |-> error, stack |-> stack, text |-> text,
     code |-> code, eq |-> "none"]

Foreign(kind, error, text, code, eq) ==
    [kind |-> kind, error |-> error, stack |-> <<>>, text |-> text,
     code |-> code, eq |-> eq]

Refs == 0..Len(heap)
Live == 1..Len(heap)

IsError(r) == r # Nil /\ heap[r].kind = "Error"

\* The type assertions err.(Coder), err.(Unwrapper), err.(Causer), err.(Equaler).
IsCoder(r) == r # Nil /\ heap[r].kind \in {"Error", "coder"}
IsUnwrapper(r) == r # Nil /\ heap[r].kind \in {"Error", "unwrapper"}
IsCauser(r) == r # Nil /\ heap[r].kind \in {"Error", "causer"}
IsEqualer(r) == r # Nil /\ heap[r].kind = "equaler"
IsCurrenter(r) == r # Nil /\ heap[r].kind \in {"Error", "currenter"}

----------------------------------------------------------------------------
(* Accessors                                                               *)

\* (*Error).Unwrap
Error_Unwrap(r) == IF r = Nil THEN Nil ELSE heap[r].error

\* Mutant: unwraps an Error twice where it can.
Unwrap_Twice(err) ==
    IF err = Nil THEN Nil
    ELSE IF IsUnwrapper(err)
         THEN (IF IsError(heap[err].error) THEN heap[heap[err].error].error
               ELSE heap[err].error)
         ELSE Nil

\* Unwrap(err): foreign unwrappers return the error they hold.
Unwrap(err) ==
    IF err = Nil THEN Nil
    ELSE IF IsUnwrapper(err)
         THEN (IF IsError(err) THEN Error_Unwrap(err) ELSE heap[err].error)
         ELSE Nil

RECURSIVE Code(_)
RECURSIVE Error_Code(_)

\* Mutant: the error's own code is never returned, only one found below it.
Error_Code_NoOwn(r) ==
    IF r = Nil THEN CodeNil
    ELSE Code(Error_Unwrap(r))

\* (*Error).Code
Error_Code(r) ==
    IF r = Nil THEN CodeNil
    ELSE IF heap[r].code = CodeNil THEN Code(Error_Unwrap(r))
    ELSE heap[r].code

\* Code(err): a foreign coder returns the code it holds.
Code(err) ==
    IF err = Nil THEN CodeNil
    ELSE IF IsCoder(err)
         THEN (IF IsError(err) THEN Error_Code(err) ELSE heap[err].code)
         ELSE IF IsUnwrapper(err) THEN Code(heap[err].error)
         ELSE CodeNil

\* Mutant: only the error itself is asked for its code.
HasCode_NoDescent(err, code) ==
    err # Nil /\ IsCoder(err) /\ code = Code(err)

RECURSIVE HasCode(_, _)
\* HasCode(err, code)
HasCode(err, code) ==
    IF err = Nil THEN FALSE
    ELSE IF IsCoder(err) /\ code = Code(err) THEN TRUE  \* e.Code() is Code(err) for a Coder
    ELSE IF IsUnwrapper(err) THEN HasCode(Unwrap(err), code)
    ELSE FALSE

RECURSIVE ErrorOf(_)
RECURSIVE Error_Error(_)

\* Mutant: the separator is written whenever the Error wraps a cause.
Error_Error_AlwaysSeparator(r) ==
    IF r = Nil THEN <<>>
    ELSE LET e == heap[r]
             errStr == IF e.text = <<>> /\ ~e.code.isNil THEN e.code.message ELSE e.text
         IN IF e.error # Nil
            THEN errStr \o <<":", " ">> \o ErrorOf(e.error)
            ELSE errStr

\* (*Error).Error
Error_Error(r) ==
    IF r = Nil THEN <<>>
    ELSE LET e == heap[r]
             errStr == IF e.text = <<>> /\ ~e.code.isNil THEN e.code.message ELSE e.text
         IN IF e.error # Nil
            THEN (IF errStr # <<>> THEN errStr \o <<":", " ">> ELSE errStr) \o ErrorOf(e.error)
            ELSE errStr

\* err.Error() of any non-nil error: a foreign error prints its own text.
ErrorOf(err) == IF IsError(err) THEN Error_Error(err) ELSE heap[err].text

\* What Cause returns: an error that exists already, or one it has just
\* created with errors.New(text), which is no error created before.
Existing(r) == [fresh |-> FALSE, ref |-> r, text |-> <<>>]
Fresh(text) == [fresh |-> TRUE, ref |-> Nil, text |-> text]

\* Mutant: the text of the outermost Error is copied, not the innermost's.
Error_CauseLoop_Outermost(loop) == Fresh(heap[loop].text)

\* The loop of (*Error).Cause.
RECURSIVE Error_CauseLoop(_)
Error_CauseLoop(loop) ==
    LET inner == heap[loop].error IN
    IF inner # Nil
    THEN IF IsError(inner) THEN Error_CauseLoop(inner)
         ELSE IF IsCauser(inner) THEN Existing(heap[inner].error)
         ELSE Existing(inner)
    ELSE Fresh(heap[loop].text)

\* Mutant: a foreign error at the end of the chain is copied as well.
Error_Cause_CopiesForeign(r) ==
    IF r = Nil THEN Existing(Nil)
    ELSE LET c == Error_CauseLoop(r)
         IN IF c.fresh \/ c.ref = Nil THEN c ELSE Fresh(heap[c.ref].text)

\* (*Error).Cause
Error_Cause(r) == IF r = Nil THEN Existing(Nil) ELSE Error_CauseLoop(r)

RECURSIVE Cause(_)
\* Cause(err): a foreign causer returns the error it holds.
Cause(err) ==
    IF err = Nil THEN Existing(Nil)
    ELSE IF IsCauser(err)
         THEN (IF IsError(err) THEN Error_Cause(err) ELSE Existing(heap[err].error))
         ELSE IF IsUnwrapper(err) THEN Cause(heap[err].error)
         ELSE Existing(err)

\* The Equal method of a foreign equaler: a comparator that accepts every
\* target, none, or those that print the same text.
Equaler_Equal(r, target) ==
    CASE heap[r].eq = "always" -> TRUE
      [] heap[r].eq = "never" -> FALSE
      [] OTHER -> target # Nil /\ ErrorOf(target) = heap[r].text

\* Mutant: the comparator of target is asked before the one of err.
Equal_TargetFirst(err, target) ==
    IF err = target THEN TRUE
    ELSE IF IsEqualer(target) THEN Equaler_Equal(target, err)
    ELSE IF IsEqualer(err) THEN Equaler_Equal(err, target)
    ELSE FALSE

\* Equal(err, target)
Equal(err, target) ==
    IF err = target THEN TRUE
    ELSE IF IsEqualer(err) THEN Equaler_Equal(err, target)
    ELSE IF IsEqualer(target) THEN Equaler_Equal(target, err)
    ELSE FALSE

----------------------------------------------------------------------------
(* Stack capture and rendering                                             *)

\* Substrings of a file path that drop a frame from Stack().
stackFilterKeyLocal == <<"/", "pkg/errors/errors">>
StackFilterKeyForLoom == <<"github.com/focela/loom", "/">>

maxStackDepth == 64

\* runtime.FuncForPC and (*Func).FileLine: the function, file and line of a
\* program counter; ok is FALSE where FuncForPC returns nil.  "callers",
\* "ctor" and "option" are the package's own frames, the first in
\* api_stack.go, the second in a file stackFilterKeyLocal matches and the
\* third in one it does not match; "rtcallers" is runtime.Callers.
FuncForPC(p) ==
    CASE p = "main" ->
           [ok |-> TRUE, name |-> "main.main", file |-> <<"/app/main.go">>, line |-> 10]
      [] p = "run" ->
           [ok |-> TRUE, name |-> "main.run", file |-> <<"/app/run.go">>, line |-> 27]
      [] p = "loomx" ->
           [ok |-> TRUE, name |-> "loom/internal/core.Do",
            file |-> <<"/gopath/src/", "github.com/focela/loom", "/", "internal/core/do.go">>,
            line |-> 5]
      [] p = "callers" ->
           [ok |-> TRUE, name |-> "errors.callers",
            file |-> <<"/gopath/src/", "github.com/focela/loom", "/", "pkg/errors/api_stack.go">>,
            line |-> 121]
      [] p = "ctor" ->
           [ok |-> TRUE, name |-> "errors.New",
            file |-> <<"/gopath/src/", "github.com/focela/loom", "/", "pkg/errors/errors", ".go">>,
            line |-> 16]
      [] p = "option" ->
           [ok |-> TRUE, name |-> "errors.NewOption",
            file |-> <<"/gopath/src/", "github.com/focela/loom", "/", "pkg/errors/api_option.go">>,
            line |-> 36]
      [] p = "vendored" ->
           [ok |-> TRUE, name |-> "errors.Wrap",
            file |-> <<"/vendor/x", "/", "pkg/errors/errors", "_api.go">>, line |-> 30]
      [] p = "goexit" ->
           [ok |-> TRUE, name |-> "runtime.goexit",
            file |-> <<"/usr/local/go", "/src/runtime/asm.s">>, line |-> 1700]
      [] p = "rtcallers" ->
           [ok |-> TRUE, name |-> "runtime.Callers",
            file |-> <<"/usr/local/go", "/src/runtime/extern.go">>, line |-> 331]
      [] p = "autogen" ->
           [ok |-> TRUE, name |-> "main.(*T).M", file |-> <<"<", "autogenerated>">>, line |-> 1]
      [] OTHER ->
           [ok |-> FALSE, name |-> "", file |-> <<>>, line |-> 0]

\* strconv.Itoa for n >= 0, as fmt's %d prints it.
RECURSIVE Itoa(_)
Itoa(n) ==
    LET digit == <<"0", "1", "2", "3", "4", "5", "6", "7", "8", "9">>[(n % 10) + 1]
    IN IF n < 10 THEN <<digit>> ELSE Itoa(n \div 10) \o <<digit>>

\* Mutant: the buffer of program counters has no end.
callers_Unbounded(cs, lib, skip) ==
    LET full == <<"rtcallers">> \o lib \o cs
        n == 3 + (IF Len(skip) > 0 THEN skip[1] ELSE 0)
        skipped == IF n < 0 THEN 0 ELSE n
    IN IF skipped >= Len(full) THEN <<>>
       ELSE SubSeq(full, skipped + 1, Len(full))

\* callers(skip...): the program counters runtime.Callers(3 + skip) stores
\* into a buffer of maxStackDepth entries.  `cs` is the stack of the caller
\* of the constructor, innermost frame first; `lib` are the frames of the
\* package between runtime.Callers and that caller.  runtime.Callers skips
\* no frame for a negative count and stores nothing past the last frame.
callers(cs, lib, skip) ==
    LET full == <<"rtcallers">> \o lib \o cs
        n == 3 + (IF Len(skip) > 0 THEN skip[1] ELSE 0)
        skipped == IF n < 0 THEN 0 ELSE n
    IN IF skipped >= Len(full) THEN <<>>
       ELSE SubSeq(full, skipped + 1, Min(Len(full), skipped + maxStackDepth))

\* Mutant: the frames of the loom module are kept in brief mode too.
KeepsFrame_Loom(p, isStackModeBrief) ==
    LET fn == FuncForPC(p) IN
    /\ fn.ok
    /\ ~(Contains(fn.file, stackFilterKeyLocal) \/ Contains(fn.file, <<"<">>))
    /\ ~(goRootForFilter # <<>> /\ HasPrefix(fn.file, goRootForFilter))

\* Mutant: the frames of the package's own files are kept.
KeepsFrame_Local(p, isStackModeBrief) ==
    LET fn == FuncForPC(p) IN
    /\ fn.ok
    /\ ~(isStackModeBrief /\ Contains(fn.file, StackFilterKeyForLoom))
    /\ ~Contains(fn.file, <<"<">>)
    /\ ~(goRootForFilter # <<>> /\ HasPrefix(fn.file, goRootForFilter))

\* Whether loopLinesOfStackInfo keeps the frame of program counter p.
KeepsFrame(p, isStackModeBrief) ==
    LET fn == FuncForPC(p) IN
    /\ fn.ok
    /\ ~(isStackModeBrief /\ Contains(fn.file, StackFilterKeyForLoom))
    /\ ~(Contains(fn.file, stackFilterKeyLocal) \/ Contains(fn.file, <<"<">>))
    /\ ~(goRootForFilter # <<>> /\ HasPrefix(fn.file, goRootForFilter))

stackLine(p) ==
    LET fn == FuncForPC(p) IN
    [Function |-> fn.name, FileLine |-> fn.file \o <<":">> \o Itoa(fn.line)]

\* loopLinesOfStackInfo: the lines of one captured stack (a nil stack and
\* an empty one both give none).
RECURSIVE loopLinesOfStackInfo(_, _)
loopLinesOfStackInfo(st, isStackModeBrief) ==
    IF Len(st) = 0 THEN <<>>
    ELSE (IF KeepsFrame(st[1], isStackModeBrief) THEN <<stackLine(st[1])>> ELSE <<>>)
         \o loopLinesOfStackInfo(Tail(st), isStackModeBrief)

\* IsStackModeBrief of the core package.
IsStackModeBrief == stackModeConfigured = "brief"

RECURSIVE Error_Format(_, _, _)

\* The loop of (*Error).Stack: one stackInfo per level of the chain, and a
\* last one without lines for a foreign error at its end.
RECURSIVE StackInfosLoop(_, _)
StackInfosLoop(loop, index) ==
    LET info == [Index |-> index, Message |-> Error_Format(loop, {}, "v"),
                 Lines |-> loopLinesOfStackInfo(heap[loop].stack, IsStackModeBrief)]
        next == heap[loop].error
    IN IF IsError(next) THEN <<info>> \o StackInfosLoop(next, index + 1)
       ELSE IF next # Nil
            THEN <<info, [Index |-> index + 1, Message |-> ErrorOf(next), Lines |-> <<>>]>>
            ELSE <<info>>

\* One pass of filterLinesOfStackInfos over the lines of a level: the lines
\* kept and the locations seen so far.
RECURSIVE FilterLevel(_, _)
FilterLevel(lines, set) ==
    IF Len(lines) = 0 THEN [lines |-> <<>>, set |-> set]
    ELSE IF lines[1].FileLine \in set
         THEN FilterLevel(Tail(lines), set)
         ELSE LET rest == FilterLevel(Tail(lines), set \cup {lines[1].FileLine})
              IN [lines |-> <<lines[1]>> \o rest.lines, set |-> rest.set]

\* filterLinesOfStackInfos: from the last level to the first.
RECURSIVE filterLoop(_, _, _)
filterLoop(infos, i, set) ==
    IF i = 0 THEN infos
    ELSE LET f == FilterLevel(infos[i].Lines, set)
         IN filterLoop([infos EXCEPT ![i].Lines = f.lines], i - 1, f.set)

\* Mutant: no line is removed.
filterLinesOfStackInfos_KeepsAll(infos) == infos

filterLinesOfStackInfos(infos) == filterLoop(infos, Len(infos), {})

\* The stack infos (*Error).Stack hands to formatStackInfos.
StackInfos(r) == filterLinesOfStackInfos(StackInfosLoop(r, 1))

\* formatStackLines
RECURSIVE formatStackLines(_, _)
formatStackLines(lines, i) ==
    IF i > Len(lines) THEN <<>>
    ELSE <<"   ">> \o Itoa(i) \o <<").">> \o (IF i - 1 >= 9 THEN <<" ">> ELSE <<"  ">>)
         \o <<lines[i].Function, "\n        ">> \o lines[i].FileLine \o <<"\n">>
         \o formatStackLines(lines, i + 1)

\* formatStackInfos
RECURSIVE formatStackInfos(_, _)
formatStackInfos(infos, i) ==
    IF i > Len(infos) THEN <<>>
    ELSE Itoa(i) \o <<". ">> \o infos[i].Message \o <<"\n">>
         \o formatStackLines(infos[i].Lines, 1)
         \o formatStackInfos(infos, i + 1)

\* (*Error).Stack
Error_Stack(r) == IF r = Nil THEN <<>> ELSE formatStackInfos(StackInfos(r), 1)

\* Mutant: %+v writes the stack alone, as %+s does.
Error_Format_PlusIsStack(r, flags, verb) ==
    IF verb \in {"s", "v"}
    THEN IF "-" \in flags
         THEN (IF heap[r].text # <<>> THEN heap[r].text ELSE Error_Error(r))
         ELSE IF "+" \in flags THEN Error_Stack(r) ELSE Error_Error(r)
    ELSE <<>>

\* (*Error).Format on a non-nil Error: what it writes for the verb and the
\* flags of the format directive.
Error_Format(r, flags, verb) ==
    IF verb \in {"s", "v"}
    THEN IF "-" \in flags
         THEN (IF heap[r].text # <<>> THEN heap[r].text ELSE Error_Error(r))
         ELSE IF "+" \in flags
              THEN (IF verb = "s" THEN Error_Stack(r)
                    ELSE Error_Error(r) \o <<"\n">> \o Error_Stack(r))
              ELSE Error_Error(r)
    ELSE <<>>

----------------------------------------------------------------------------
(* Constructors and the other operations that change state                 *)

\* The frames of the package above the caller of a constructor.
LibFrames == <<"callers", "ctor">>

Return(op, err, code, res) ==
    last' = [op |-> op, err |-> err, code |-> code, res |-> res]

\* return &Error{...}
Alloc(op, err, code, e) ==
    /\ heap' = Append(heap, e)
    /\ Return(op, err, code, Len(heap) + 1)
    /\ UNCHANGED envVars

\* return nil
ReturnNil(op, err, code) ==
    /\ Return(op, err, code, Nil)
    /\ UNCHANGED <<heap, envVars>>

New(cs, text) ==
    /\ Len(heap) < MaxErrors
    /\ Alloc("New", Nil, NoCode,
             Error(Nil, callers(cs, LibFrames, <<>>), text, CodeNil))

Newf(cs, format, args) ==
    /\ Len(heap) < MaxErrors
    /\ Alloc("Newf", Nil, NoCode,
             Error(Nil, callers(cs, LibFrames, <<>>), Sprintf(format, args), CodeNil))

NewSkip(cs, skip, text) ==
    /\ Len(heap) < MaxErrors
    /\ Alloc("NewSkip", Nil, NoCode,
             Error(Nil, callers(cs, LibFrames, <<skip>>), text, CodeNil))

NewSkipf(cs, skip, format, args) ==
    /\ Len(heap) < MaxErrors
    /\ Alloc("NewSkipf", Nil, NoCode,
             Error(Nil, callers(cs, LibFrames, <<skip>>), Sprintf(format, args), CodeNil))

Wrap(cs, err, text) ==
    \/ /\ err = Nil
       /\ ReturnNil("Wrap", err, NoCode)
    \/ /\ err # Nil
       /\ Len(heap) < MaxErrors
       /\ Alloc("Wrap", err, NoCode,
                Error(err, callers(cs, LibFrames, <<>>), text, Code(err)))

Wrapf(cs, err, format, args) ==
    \/ /\ err = Nil
       /\ ReturnNil("Wrapf", err, NoCode)
    \/ /\ err # Nil
       /\ Len(heap) < MaxErrors
       /\ Alloc("Wrapf", err, NoCode,
                Error(err, callers(cs, LibFrames, <<>>), Sprintf(format, args), Code(err)))

WrapSkip(cs, skip, err, text) ==
    \/ /\ err = Nil
       /\ ReturnNil("WrapSkip", err, NoCode)
    \/ /\ err # Nil
       /\ Len(heap) < MaxErrors
       /\ Alloc("WrapSkip", err, NoCode,
                Error(err, callers(cs, LibFrames, <<skip>>), text, Code(err)))

WrapSkipf(cs, skip, err, format, args) ==
    \/ /\ err = Nil
       /\ ReturnNil("WrapSkipf", err, NoCode)
    \/ /\ err # Nil
       /\ Len(heap) < MaxErrors
       /\ Alloc("WrapSkipf", err, NoCode,
                Error(err, callers(cs, LibFrames, <<skip>>), Sprintf(format, args), Code(err)))

NewCode(cs, code, text) ==
    /\ Len(heap) < MaxErrors
    /\ Alloc("NewCode", Nil, code,
             Error(Nil, callers(cs, LibFrames, <<>>), Join(text, commaSeparatorSpace), code))

NewCodef(cs, code, format, args) ==
    /\ Len(heap) < MaxErrors
    /\ Alloc("NewCodef", Nil, code,
             Error(Nil, callers(cs, LibFrames, <<>>), Sprintf(format, args), code))

NewCodeSkip(cs, code, skip, text) ==
    /\ Len(heap) < MaxErrors
    /\ Alloc("NewCodeSkip", Nil, code,
             Error(Nil, callers(cs, LibFrames, <<skip>>), Join(text, commaSeparatorSpace), code))

NewCodeSkipf(cs, code, skip, format, args) ==
    /\ Len(heap) < MaxErrors
    /\ Alloc("NewCodeSkipf", Nil, code,
             Error(Nil, callers(cs, LibFrames, <<skip>>), Sprintf(format, args), code))

WrapCode(cs, code, err, text) ==
    \/ /\ err = Nil
       /\ ReturnNil("WrapCode", err, code)
    \/ /\ err # Nil
       /\ Len(heap) < MaxErrors
       /\ Alloc("WrapCode", err, code,
                Error(err, callers(cs, LibFrames, <<>>), Join(text, commaSeparatorSpace), code))

WrapCodef(cs, code, err, format, args) ==
    \/ /\ err = Nil
       /\ ReturnNil("WrapCodef", err, code)
    \/ /\ err # Nil
       /\ Len(heap) < MaxErrors
       /\ Alloc("WrapCodef", err, code,
                Error(err, callers(cs, LibFrames, <<>>), Sprintf(format, args), code))

WrapCodeSkip(cs, code, skip, err, text) ==
    \/ /\ err = Nil
       /\ ReturnNil("WrapCodeSkip", err, code)
    \/ /\ err # Nil
       /\ Len(heap) < MaxErrors
       /\ Alloc("WrapCodeSkip", err, code,
                Error(err, callers(cs, LibFrames, <<skip>>), Join(text, commaSeparatorSpace), code))

\* Mutant: no nil check, a nil error is wrapped like any other.
WrapCodeSkipf_NoNilCheck(cs, code, skip, err, format, args) ==
    /\ Len(heap) < MaxErrors
    /\ Alloc("WrapCodeSkipf", err, code,
             Error(err, callers(cs, LibFrames, <<skip>>), Sprintf(format, args), code))

WrapCodeSkipf(cs, code, skip, err, format, args) ==
    \/ /\ err = Nil
       /\ ReturnNil("WrapCodeSkipf", err, code)
    \/ /\ err # Nil
       /\ Len(heap) < MaxErrors
       /\ Alloc("WrapCodeSkipf", err, code,
                Error(err, callers(cs, LibFrames, <<skip>>), Sprintf(format, args), code))

\* NewWithOption(option)
NewWithOption(cs, option) ==
    /\ Len(heap) < MaxErrors
    /\ Alloc("NewWithOption", option.Error, option.Code,
             Error(option.Error,
                   IF option.Stack THEN callers(cs, LibFrames, <<>>) ELSE <<>>,
                   option.Text, option.Code))

\* NewOption(option) calls NewWithOption, so that the frame callers skips as
\* the constructor's is NewWithOption's and the first one captured is its
\* own, `self`.
NewOption(cs, self, option) ==
    /\ Len(heap) < MaxErrors
    /\ Alloc("NewOption", option.Error, option.Code,
             Error(option.Error,
                   IF option.Stack THEN callers(cs, LibFrames \o <<self>>, <<>>) ELSE <<>>,
                   option.Text, option.Code))

\* Mutant: SetCode also replaces the text by the message of the code.
SetCode_AndText(r, c) ==
    /\ heap' = IF r = Nil THEN heap
               ELSE [heap EXCEPT ![r].code = c, ![r].text = c.message]
    /\ Return("SetCode", r, c, r)
    /\ UNCHANGED envVars

\* (*Error).SetCode
SetCode(r, c) ==
    /\ heap' = IF r = Nil THEN heap ELSE [heap EXCEPT ![r].code = c]
    /\ Return("SetCode", r, c, r)
    /\ UNCHANGED envVars

\* Mutant: the copy (*Error).Current makes keeps the wrapped error.
Current_KeepsWrapped(err) ==
    \/ /\ err = Nil
       /\ ReturnNil("Current", err, NoCode)
    \/ /\ IsError(err)
       /\ Len(heap) < MaxErrors
       /\ Alloc("Current", err, NoCode, heap[err])
    \/ /\ err # Nil /\ ~IsError(err)
       /\ Return("Current", err, NoCode, IF IsCurrenter(err) THEN heap[err].error ELSE err)
       /\ UNCHANGED <<heap, envVars>>

\* Current(err): (*Error).Current copies text, code and stack into a new
\* Error; a foreign currenter returns the error it holds, any other foreign
\* error is returned itself.
Current(err) ==
    \/ /\ err = Nil
       /\ ReturnNil("Current", err, NoCode)
    \/ /\ IsError(err)
       /\ Len(heap) < MaxErrors
       /\ Alloc("Current", err, NoCode,
                Error(Nil, heap[err].stack, heap[err].text, heap[err].code))
    \/ /\ err # Nil /\ ~IsError(err)
       /\ Return("Current", err, NoCode, IF IsCurrenter(err) THEN heap[err].error ELSE err)
       /\ UNCHANGED <<heap, envVars>>

\* An error of another package comes into being.
NewForeign(e) ==
    /\ Len(heap) < MaxErrors
    /\ Alloc("foreign", e.error, e.code, e)

----------------------------------------------------------------------------
(* Process start and the calls of package command                          *)

SetParser(st) ==
    /\ defaultParsedArgs' = st.args
    /\ defaultParsedOptions' = st.options
    /\ initialized' = st.initialized

\* The init functions run: package core reads its settings through
\* GetOptWithEnv, which initialises the parser from os.Args.
core_init ==
    /\ ~started
    /\ started' = TRUE
    /\ stackModeConfigured' = ConfiguredStackMode(Parser, stackModeConfigured)
    /\ SetParser(ensureInitialized(Parser))
    /\ last' = [op |-> "core.init"]
    /\ UNCHANGED <<heap, goRootForFilter, commandRev, osArgs, environ, predefinedCodes, auxVars>>

\* What a call of package command leaves alone.
CommandFrame == UNCHANGED <<heap, stackModeConfigured, goRootForFilter, started,
                            commandRev, osArgs, environ, predefinedCodes, auxVars>>

\* Init(args...)
Call_Init(args) ==
    /\ started
    /\ SetParser(Command_Init(Parser, args))
    /\ last' = [op |-> "Init", args |-> args]
    /\ CommandFrame

\* GetArg(index, def...)
Call_GetArg(index, def) ==
    /\ started
    /\ SetParser(ensureInitialized(Parser))
    /\ last' = [op |-> "GetArg", index |-> index, def |-> def,
                res |-> GetArg(Parser, index, def)]
    /\ CommandFrame

\* GetArgAll()
Call_GetArgAll ==
    /\ started
    /\ SetParser(ensureInitialized(Parser))
    /\ last' = [op |-> "GetArgAll", res |-> ensureInitialized(Parser).args]
    /\ CommandFrame

\* GetOpt(name, def...)
Call_GetOpt(name, def) ==
    /\ started
    /\ SetParser(ensureInitialized(Parser))
    /\ last' = [op |-> "GetOpt", name |-> name, def |-> def,
                res |-> GetOpt(Parser, name, def)]
    /\ CommandFrame

\* ContainsOpt(name)
Call_ContainsOpt(name) ==
    /\ started
    /\ SetParser(ensureInitialized(Parser))
    /\ last' = [op |-> "ContainsOpt", name |-> name, res |-> ContainsOpt(Parser, name)]
    /\ CommandFrame

\* GetOptWithEnv(key, def...)
Call_GetOptWithEnv(key, def) ==
    /\ started
    /\ SetParser(ensureInitialized(Parser))
    /\ last' = [op |-> "GetOptWithEnv", key |-> key, def |-> def,
                res |-> GetOptWithEnv(Parser, key, def)]
    /\ CommandFrame

\* The program assigns os.Args.
SetOsArgs(args) ==
    /\ started
    /\ osArgs # args
    /\ osArgs' = args
    /\ last' = [op |-> "os.Args", args |-> args]
    /\ UNCHANGED <<heap, stackModeConfigured, goRootForFilter, started, commandRev,
                   environ, defaultParsedArgs, defaultParsedOptions, initialized,
                   predefinedCodes, auxVars>>

----------------------------------------------------------------------------
(* The calls of package code                                               *)

\* Mutant: WithCode writes the detail into the code it is given, where
\* that is a predefined one.
Call_WithCode_InPlace(code, detail) ==
    /\ started
    /\ last' = [op |-> "WithCode", code |-> code, detail |-> detail,
                res |-> WithCode(code, detail)]
    /\ predefinedCodes' =
           [n \in DOMAIN predefinedCodes |->
               IF predefinedCodes[n] = code THEN WithCode(code, detail)
               ELSE predefinedCodes[n]]
    /\ UNCHANGED <<heap, stackModeConfigured, goRootForFilter, started, cmdVars, auxVars>>

\* code.WithCode(code, detail)
Call_WithCode(code, detail) ==
    /\ started
    /\ last' = [op |-> "WithCode", code |-> code, detail |-> detail,
                res |-> WithCode(code, detail)]
    /\ UNCHANGED <<heap, envVars>>

\* code.New(code, message, detail)
Call_code_New(c, m, d) ==
    /\ started
    /\ last' = [op |-> "code.New", code |-> c, message |-> m, detail |-> d,
                res |-> code_New(c, m, d)]
    /\ UNCHANGED <<heap, envVars>>

----------------------------------------------------------------------------
(* Packages mutex, lock and rwmutex: sync.Mutex and sync.RWMutex behind a  *)
(* switch                                                                  *)

\* How many goroutines share the mutex.
NumGoroutines == 3
Goroutines == 1 .. NumGoroutines

\* The types: Mutex of packages mutex and lock, RWMutex of package rwmutex.
MutexTypes == {"Mutex", "RWMutex"}

\* The field `mutex`: a nil pointer, or a sync.Mutex / sync.RWMutex in its
\* zero state.  pending counts the goroutines waiting in Lock, which keep
\* new readers out of a sync.RWMutex.
NilSync == [isNil |-> TRUE, locked |-> FALSE, readers |-> 0, pending |-> 0]
NewSync == [isNil |-> FALSE, locked |-> FALSE, readers |-> 0, pending |-> 0]

\* Mutant: Create allocates the underlying mutex whatever it is given.
Create_AlwaysSafe(type, safe) == [type |-> type, mutex |-> NewSync]

\* Create(safe...)
Create(type, safe) ==
    IF Len(safe) > 0 /\ safe[1]
    THEN [type |-> type, mutex |-> NewSync]
    ELSE [type |-> type, mutex |-> NilSync]

\* New(safe...): a pointer to what Create returns.
Mutex_New(type, safe) == Create(type, safe)

\* (mu).IsSafe()
IsSafe(m) == ~m.mutex.isNil

\* sync: Unlock of a mutex that is not locked, and RUnlock of one that has
\* no reader, stop the process with a fatal error.
sync_Unlock(m) ==
    IF m.locked THEN [mutex |-> [m EXCEPT !.locked = FALSE], fatal |-> FALSE]
    ELSE [mutex |-> m, fatal |-> TRUE]

sync_RUnlock(m) ==
    IF m.readers > 0 THEN [mutex |-> [m EXCEPT !.readers = @ - 1], fatal |-> FALSE]
    ELSE [mutex |-> m, fatal |-> TRUE]

\* What a call on the mutex leaves alone.
MutexFrame == UNCHANGED <<heap, last, stackModeConfigured, goRootForFilter, started,
                          cmdVars, predefinedCodes, newArgs, ioVars>>

Running == ~fatal /\ mu.type \in MutexTypes

\* (mu).Lock() up to the point where sync's Lock waits: it returns at once
\* when the underlying mutex is nil.
Lock(g) ==
    /\ Running /\ pc[g] = "idle"
    /\ IF IsSafe(mu)
       THEN /\ mu' = [mu EXCEPT !.mutex.pending = @ + 1]
            /\ pc' = [pc EXCEPT ![g] = "Lock"]
       ELSE /\ pc' = [pc EXCEPT ![g] = "locked"]
            /\ UNCHANGED mu
    /\ UNCHANGED fatal
    /\ MutexFrame

\* Mutant: sync's Lock returns without waiting for the mutex to be free.
Lock_Return_NoWait(g) ==
    /\ Running /\ pc[g] = "Lock"
    /\ mu' = [mu EXCEPT !.mutex.locked = TRUE, !.mutex.pending = @ - 1]
    /\ pc' = [pc EXCEPT ![g] = "locked"]
    /\ UNCHANGED fatal
    /\ MutexFrame

\* sync's Lock returns: nobody holds the mutex, for writing or for reading.
Lock_Return(g) ==
    /\ Running /\ pc[g] = "Lock"
    /\ ~mu.mutex.locked /\ mu.mutex.readers = 0
    /\ mu' = [mu EXCEPT !.mutex.locked = TRUE, !.mutex.pending = @ - 1]
    /\ pc' = [pc EXCEPT ![g] = "locked"]
    /\ UNCHANGED fatal
    /\ MutexFrame

\* (mu).Unlock() called by a goroutine at position `from`; it is then idle.
UnlockFrom(g, from) ==
    /\ Running /\ pc[g] = from
    /\ IF IsSafe(mu)
       THEN /\ mu' = [mu EXCEPT !.mutex = sync_Unlock(mu.mutex).mutex]
            /\ fatal' = sync_Unlock(mu.mutex).fatal
       ELSE UNCHANGED <<mu, fatal>>
    /\ pc' = [pc EXCEPT ![g] = "idle"]
    /\ MutexFrame

\* (mu).Unlock() after the goroutine's own Lock.
Unlock(g) == UnlockFrom(g, "locked")

\* (mu).Unlock() without a Lock before it.
Unlock_NoLock(g) == UnlockFrom(g, "idle")

\* (mu).RLock() of an RWMutex up to the point where sync's RLock waits.
RLock(g) ==
    /\ Running /\ mu.type = "RWMutex" /\ pc[g] = "idle"
    /\ pc' = [pc EXCEPT ![g] = IF IsSafe(mu) THEN "RLock" ELSE "rlocked"]
    /\ UNCHANGED <<mu, fatal>>
    /\ MutexFrame

\* sync's RLock returns: no writer holds the mutex and none waits for it.
RLock_Return(g) ==
    /\ Running /\ pc[g] = "RLock"
    /\ ~mu.mutex.locked /\ mu.mutex.pending = 0
    /\ mu' = [mu EXCEPT !.mutex.readers = @ + 1]
    /\ pc' = [pc EXCEPT ![g] = "rlocked"]
    /\ UNCHANGED fatal
    /\ MutexFrame

\* (mu).RUnlock() called by a goroutine at position `from`.
RUnlockFrom(g, from) ==
    /\ Running /\ mu.type = "RWMutex" /\ pc[g] = from
    /\ IF IsSafe(mu)
       THEN /\ mu' = [mu EXCEPT !.mutex = sync_RUnlock(mu.mutex).mutex]
            /\ fatal' = sync_RUnlock(mu.mutex).fatal
       ELSE UNCHANGED <<mu, fatal>>
    /\ pc' = [pc EXCEPT ![g] = "idle"]
    /\ MutexFrame

\* (mu).RUnlock() after the goroutine's own RLock.
RUnlock(g) == RUnlockFrom(g, "rlocked")

\* (mu).RUnlock() without an RLock before it.
RUnlock_NoRLock(g) == RUnlockFrom(g, "idle")

----------------------------------------------------------------------------
(* Package utils: ReadCloser                                               *)

\* The two revisions of Read.
ReaderRevisions == {"first", "second"}

\* Mutant: Read starts again at the first byte whether or not the reader is
\* repeatable.
ReadCloser_Read_AlwaysResets(b, rev, lenP) ==
    LET index == IF b.index >= Len(b.content) THEN 0 ELSE b.index
        n     == Min(lenP, Len(b.content) - index)
    IN [rc |-> [b EXCEPT !.index = index + n], n |-> n,
        data |-> SubSeq(b.content, index + 1, index + n),
        err |-> IF index + n >= Len(b.content) THEN "EOF" ELSE "nil"]

\* Mutant: Read never starts again.
ReadCloser_Read_NeverResets(b, rev, lenP) ==
    LET n == Min(lenP, Len(b.content) - b.index)
    IN [rc |-> [b EXCEPT !.index = b.index + n], n |-> n,
        data |-> SubSeq(b.content, b.index + 1, b.index + n),
        err |-> IF b.index + n >= Len(b.content) THEN "EOF" ELSE "nil"]

\* (b).Read(p) for a buffer of lenP bytes: the reader it leaves, n, the bytes
\* copied into p and err.  The second revision returns before the copy when
\* the end was reached and the reader is not repeatable.
ReadCloser_Read(b, rev, lenP) ==
    LET atEnd == b.index >= Len(b.content)
        index == IF atEnd /\ b.repeatable THEN 0 ELSE b.index
        n     == Min(lenP, Len(b.content) - index)
    IN IF rev = "second" /\ atEnd /\ ~b.repeatable
       THEN [rc |-> b, n |-> 0, data |-> <<>>, err |-> "EOF"]
       ELSE [rc |-> [b EXCEPT !.index = index + n], n |-> n,
             data |-> SubSeq(b.content, index + 1, index + n),
             err |-> IF index + n >= Len(b.content) THEN "EOF" ELSE "nil"]

\* NewReadCloser(content, repeatable)
NewReadCloser(content, repeatable) ==
    [index |-> 0, content |-> content, repeatable |-> repeatable]

\* What a call on the reader leaves alone.
ReaderFrame == UNCHANGED <<heap, stackModeConfigured, goRootForFilter, started,
                           cmdVars, predefinedCodes, syncVars, ioRev>>

\* A call of Read with a buffer of lenP bytes; the caller appends what it
\* got.
Call_Read(lenP) ==
    LET r == ReadCloser_Read(rc, ioRev, lenP)
    IN /\ rc' = r.rc
       /\ got' = got \o r.data
       /\ last' = [op |-> "Read", p |-> lenP, n |-> r.n, data |-> r.data, err |-> r.err]
       /\ ReaderFrame

\* (b).Close()
Call_Close ==
    /\ last' = [op |-> "Close", err |-> "nil"]
    /\ UNCHANGED <<rc, got>>
    /\ ReaderFrame

\* A program that has created neither a mutex nor a reader.
NoMutexNoReader ==
    /\ mu = [type |-> "none", mutex |-> NilSync]
    /\ newArgs = <<>>
    /\ pc = [g \in Goroutines |-> "idle"]
    /\ fatal = FALSE
    /\ ioRev = "first"
    /\ rc = NewReadCloser(<<>>, FALSE)
    /\ got = <<>>

----------------------------------------------------------------------------
(* Specifications                                                          *)

Texts == {<<>>, <<"a">>, <<"b">>}

\* The stack of the caller of a constructor, innermost frame first.
MainStack == <<"main", "goexit">>

\* The input sets `in` of a specification.  Where in.chain holds the program
\* builds a single chain: a new error wraps the error created last, and an
\* error that wraps nothing is created first.
Targets(in) == IF in.chain THEN {Nil, Len(heap)} ELSE Refs
Inner(in) == IF in.chain THEN {Len(heap)} ELSE Refs
RootOK(in) == ~in.chain \/ heap = <<>>

\* The program of a specification creates in.max errors at most.
Room(in) == Len(heap) < in.max

\* The errors of other packages that can come into being: an unwrapper, a
\* causer or a currenter holds an error, a coder a code, an equaler a
\* comparator.
ForeignErrors(in) ==
    {Foreign(k,
             IF k \in {"unwrapper", "causer", "currenter"} THEN r ELSE Nil,
             t,
             IF k = "coder" THEN c ELSE NoCode,
             IF k = "equaler" THEN q ELSE "none") :
        k \in {x \in in.fkinds : x \in {"unwrapper", "causer", "currenter"} \/ RootOK(in)},
        r \in Inner(in), t \in in.ftexts, c \in in.fcodes, q \in in.eqs}

Options(in) ==
    [Error : Inner(in), Stack : in.optStack, Text : in.texts, Code : in.optCodes]

\* The process has started with the command line "app" and the stack mode
\* set in its environment; the init function of package core has run.
InitIn(in) ==
    /\ heap = <<>>
    /\ last = [op |-> "init", err |-> Nil, code |-> NoCode, res |-> Nil]
    /\ stackModeConfigured \in in.modes
    /\ goRootForFilter \in in.goroots
    /\ started = TRUE
    /\ commandRev = "second"
    /\ osArgs = << <<"app">> >>
    /\ environ = [n \in {"LOOM_ERROR_STACK_MODE"} |-> <<stackModeConfigured>>]
    /\ defaultParsedArgs = ParseUsingDefaultAlgorithm(osArgs).args
    /\ defaultParsedOptions = ParseUsingDefaultAlgorithm(osArgs).options
    /\ initialized = TRUE
    /\ predefinedCodes = PredefinedCodes
    /\ NoMutexNoReader

\* Each operation with its arguments drawn from the input sets `in`.

NewIn(in) ==
    Room(in) /\ RootOK(in) /\ \E cs \in in.stacks, t \in in.texts : New(cs, t)

NewfIn(in) ==
    Room(in) /\ RootOK(in) /\ \E cs \in in.stacks, f \in in.formats, a \in in.args : Newf(cs, f, a)

NewSkipIn(in) ==
    Room(in) /\ RootOK(in) /\ \E cs \in in.stacks, k \in in.skips, t \in in.texts : NewSkip(cs, k, t)

NewSkipfIn(in) ==
    Room(in) /\ RootOK(in) /\ \E cs \in in.stacks, k \in in.skips, f \in in.formats, a \in in.args : NewSkipf(cs, k, f, a)

WrapIn(in) ==
    Room(in) /\ \E cs \in in.stacks, e \in Targets(in), t \in in.texts : Wrap(cs, e, t)

WrapfIn(in) ==
    Room(in) /\ \E cs \in in.stacks, e \in Targets(in), f \in in.formats, a \in in.args : Wrapf(cs, e, f, a)

WrapSkipIn(in) ==
    Room(in) /\ \E cs \in in.stacks, k \in in.skips, e \in Targets(in), t \in in.texts : WrapSkip(cs, k, e, t)

WrapSkipfIn(in) ==
    Room(in) /\ \E cs \in in.stacks, k \in in.skips, e \in Targets(in), f \in in.formats, a \in in.args : WrapSkipf(cs, k, e, f, a)

NewCodeIn(in) ==
    Room(in) /\ RootOK(in) /\ \E cs \in in.stacks, c \in in.codes, t \in in.joins : NewCode(cs, c, t)

NewCodefIn(in) ==
    Room(in) /\ RootOK(in) /\ \E cs \in in.stacks, c \in in.codes, f \in in.formats, a \in in.args : NewCodef(cs, c, f, a)

NewCodeSkipIn(in) ==
    Room(in) /\ RootOK(in) /\ \E cs \in in.stacks, c \in in.codes, k \in in.skips, t \in in.joins : NewCodeSkip(cs, c, k, t)

NewCodeSkipfIn(in) ==
    Room(in) /\ RootOK(in) /\ \E cs \in in.stacks, c \in in.codes, k \in in.skips, f \in in.formats, a \in in.args : NewCodeSkipf(cs, c, k, f, a)

WrapCodeIn(in) ==
    Room(in) /\ \E cs \in in.stacks, c \in in.codes, e \in Targets(in), t \in in.joins : WrapCode(cs, c, e, t)

WrapCodefIn(in) ==
    Room(in) /\ \E cs \in in.stacks, c \in in.codes, e \in Targets(in), f \in in.formats, a \in in.args : WrapCodef(cs, c, e, f, a)

WrapCodeSkipIn(in) ==
    Room(in) /\ \E cs \in in.stacks, c \in in.codes, k \in in.skips, e \in Targets(in), t \in in.joins : WrapCodeSkip(cs, c, k, e, t)

WrapCodeSkipfIn(in) ==
    Room(in) /\ \E cs \in in.stacks, c \in in.codes, k \in in.skips, e \in Targets(in), f \in in.formats, a \in in.args : WrapCodeSkipf(cs, c, k, e, f, a)

NewWithOptionIn(in) ==
    Room(in) /\ \E cs \in in.stacks, o \in Options(in) : NewWithOption(cs, o)

NewOptionIn(in) ==
    Room(in) /\ \E cs \in in.stacks, self \in in.optFrames, o \in Options(in) : NewOption(cs, self, o)

SetCodeIn(in) ==
    \E r \in {x \in Refs : x = Nil \/ IsError(x)}, c \in in.codes : SetCode(r, c)

CurrentIn(in) ==
    \E e \in Refs : Current(e)

NewForeignIn(in) ==
    Room(in) /\ \E e \in ForeignErrors(in) : NewForeign(e)

\* Codes and chains: one text; the codes a caller passes are CodeNil and
\* CodeNotFound, and an Option may leave its Code unset; the foreign errors
\* are a plain one, one with a code and one that unwraps to any error.
InCodes ==
    [max |-> MaxErrors, texts |-> {<<"a">>}, ftexts |-> {<<"x">>},
     formats |-> {<<"%s">>}, args |-> {<< <<"a">> >>}, joins |-> {<< <<"a">> >>},
     codes |-> {CodeNil, CodeNotFound}, skips |-> {0}, stacks |-> {MainStack}, chain |-> FALSE, optStack |-> {TRUE}, optCodes |-> {NoCode, CodeNotFound},
     fkinds |-> {"plain", "coder", "unwrapper"}, fcodes |-> {CodeNotFound},
     eqs |-> {"none"},
     modes |-> {"brief"}, goroots |-> {<<"/usr/local/go">>}]

Init == InitIn(InCodes)
Next ==
    \/ NewIn(InCodes)
    \/ NewfIn(InCodes)
    \/ NewSkipIn(InCodes)
    \/ NewSkipfIn(InCodes)
    \/ WrapIn(InCodes)
    \/ WrapfIn(InCodes)
    \/ WrapSkipIn(InCodes)
    \/ WrapSkipfIn(InCodes)
    \/ NewCodeIn(InCodes)
    \/ NewCodefIn(InCodes)
    \/ NewCodeSkipIn(InCodes)
    \/ NewCodeSkipfIn(InCodes)
    \/ WrapCodeIn(InCodes)
    \/ WrapCodefIn(InCodes)
    \/ WrapCodeSkipIn(InCodes)
    \/ WrapCodeSkipfIn(InCodes)
    \/ NewWithOptionIn(InCodes)
    \/ SetCodeIn(InCodes)
    \/ NewForeignIn(InCodes)
Spec == Init /\ [][Next]_vars

\* Texts and rendering: a single chain, two texts and the empty one, codes
\* with and without a message, an Option that leaves its Code unset; the
\* foreign errors are a plain one, and a causer and an unwrapper that hold
\* the error created last.
InText ==
    [max |-> MaxErrors, texts |-> Texts, ftexts |-> {<<"x">>},
     formats |-> {<<"%s">>}, args |-> {<<t>> : t \in Texts},
     joins |-> {<<>>} \cup {<<t>> : t \in Texts \ {<<>>}},
     codes |-> {CodeNil, CodeNotFound}, skips |-> {0}, stacks |-> {MainStack},
     chain |-> TRUE, optStack |-> {TRUE}, optCodes |-> {NoCode},
     fkinds |-> {"plain", "causer", "unwrapper"}, fcodes |-> {NoCode}, eqs |-> {"none"},
     modes |-> {"brief"}, goroots |-> {<<"/usr/local/go">>}]

InitText == InitIn(InText)
NextText ==
    \/ NewIn(InText)
    \/ NewfIn(InText)
    \/ WrapIn(InText)
    \/ WrapfIn(InText)
    \/ NewCodeIn(InText)
    \/ NewCodefIn(InText)
    \/ WrapCodeIn(InText)
    \/ WrapCodefIn(InText)
    \/ NewWithOptionIn(InText)
    \/ NewForeignIn(InText)
SpecText == InitText /\ [][NextText]_vars

\* Equality: any error may be wrapped; the foreign errors are plain ones and
\* equalers with each comparator.
InEqual ==
    [max |-> MaxErrors, texts |-> {<<"a">>}, ftexts |-> {<<"a">>, <<"x">>},
     formats |-> {<<"%s">>}, args |-> {<< <<"a">> >>}, joins |-> {<< <<"a">> >>},
     codes |-> {CodeNotFound}, skips |-> {0}, stacks |-> {MainStack},
     chain |-> FALSE, optStack |-> {TRUE}, optCodes |-> {NoCode},
     fkinds |-> {"plain", "equaler"}, fcodes |-> {NoCode},
     eqs |-> {"always", "never", "text"},
     modes |-> {"brief"}, goroots |-> {<<"/usr/local/go">>}]

InitEqual == InitIn(InEqual)
NextEqual ==
    \/ NewIn(InEqual)
    \/ NewCodeIn(InEqual)
    \/ WrapIn(InEqual)
    \/ NewForeignIn(InEqual)
SpecEqual == InitEqual /\ [][NextEqual]_vars

\* Stacks: every constructor, callers with frames of the package, of its
\* vendored copy, of the loom module, of generated code and of GOROOT, in
\* brief and in detail mode, with and without a GOROOT.
InStack ==
    [max |-> MaxChain, texts |-> {<<"a">>}, ftexts |-> {<<"x">>},
     formats |-> {<<"%s">>}, args |-> {<< <<"a">> >>}, joins |-> {<< <<"a">> >>},
     codes |-> {CodeNotFound}, skips |-> {0, 1},
     stacks |-> {<<"run", "main", "goexit">>,
                 <<"main", "run", "main", "goexit">>,
                 <<"vendored", "loomx", "autogen", "main", "goexit">>},
     chain |-> TRUE, optStack |-> {TRUE, FALSE}, optCodes |-> {CodeNotFound},
     optFrames |-> {"ctor", "option"},
     fkinds |-> {"plain"}, fcodes |-> {NoCode}, eqs |-> {"none"},
     modes |-> {"brief", "detail"}, goroots |-> {<<>>, <<"/usr/local/go">>}]

InitStack == InitIn(InStack)
NextStack ==
    \/ NewIn(InStack)
    \/ NewfIn(InStack)
    \/ NewSkipIn(InStack)
    \/ NewSkipfIn(InStack)
    \/ WrapIn(InStack)
    \/ WrapfIn(InStack)
    \/ WrapSkipIn(InStack)
    \/ WrapSkipfIn(InStack)
    \/ NewCodeIn(InStack)
    \/ NewCodefIn(InStack)
    \/ NewCodeSkipIn(InStack)
    \/ NewCodeSkipfIn(InStack)
    \/ WrapCodeIn(InStack)
    \/ WrapCodefIn(InStack)
    \/ WrapCodeSkipIn(InStack)
    \/ WrapCodeSkipfIn(InStack)
    \/ NewWithOptionIn(InStack)
    \/ NewOptionIn(InStack)
SpecStack == InitStack /\ [][NextStack]_vars

\* Process start: the command lines and environments a process is started
\* with, where each setting is absent, empty, recognised or not.
ModeOption == <<"-", "-", "loom.error.stack.mode">>
BriefOption == <<"-", "-", "loom.error.brief">>

ModeCommandLines ==
    {<< <<"app">> >>,
     << <<"app">>, ModeOption \o <<"=", "detail">> >>,
     << <<"app">>, ModeOption, <<"detail">> >>,
     << <<"app">>, <<"-", "loom.error.stack.mode", "=", "detail">> >>,
     << <<"app">>, ModeOption \o <<"=", "brief">> >>,
     << <<"app">>, ModeOption \o <<"=", "Detail">> >>,
     << <<"app">>, ModeOption >>,
     << <<"app">>, BriefOption \o <<"=", "1">> >>,
     << <<"app">>, BriefOption, ModeOption \o <<"=", "detail">> >>,
     << <<"app">>, BriefOption, <<"true">>, <<"a">> >>}

ModeEnvirons ==
    {[n \in names |-> IF n = "LOOM_ERROR_BRIEF" THEN b ELSE m] :
        names \in SUBSET {"LOOM_ERROR_BRIEF", "LOOM_ERROR_STACK_MODE"},
        b \in {<<"1">>, <<"0">>},
        m \in {<<>>, <<"detail">>, <<"brief">>, <<"x">>}}

InitMode ==
    /\ heap = <<>>
    /\ last = [op |-> "start"]
    /\ stackModeConfigured = "brief"
    /\ goRootForFilter = <<"/usr/local/go">>
    /\ started = FALSE
    /\ commandRev \in Revisions
    /\ osArgs \in ModeCommandLines
    /\ environ \in ModeEnvirons
    /\ defaultParsedArgs = <<>>
    /\ defaultParsedOptions = EmptyMap
    /\ initialized = FALSE
    /\ predefinedCodes = PredefinedCodes
    /\ NoMutexNoReader

Call_InitMode ==
    \E args \in {<<>>, << ModeOption \o <<"=", "detail">> >>, << <<"a">> >>} : Call_Init(args)

Call_GetOptWithEnvMode ==
    \E key \in {commandEnvKeyForBrief, commandEnvKeyForStackMode},
       def \in {<<>>, << <<"x">> >>} : Call_GetOptWithEnv(key, def)

NextMode ==
    \/ core_init
    \/ Call_InitMode
    \/ Call_GetOptWithEnvMode
SpecMode == InitMode /\ [][NextMode]_vars

\* Deep call stacks: a caller 65 frames deep, so that the buffer of callers
\* is filled exactly, overrun or not filled as the skip count goes.
DeepFrames == 65
DeepStack == [i \in 1..(DeepFrames - 2) |-> "run"] \o <<"main", "goexit">>

InDepth ==
    [max |-> MaxChain, texts |-> {<<"a">>}, ftexts |-> {<<"x">>},
     formats |-> {<<"%s">>}, args |-> {<< <<"a">> >>}, joins |-> {<< <<"a">> >>},
     codes |-> {CodeNotFound}, skips |-> {-4, 1, DeepFrames},
     stacks |-> {MainStack, DeepStack},
     chain |-> TRUE, optStack |-> {TRUE}, optCodes |-> {CodeNotFound},
     optFrames |-> {"option"},
     fkinds |-> {"plain"}, fcodes |-> {NoCode}, eqs |-> {"none"},
     modes |-> {"detail"}, goroots |-> {<<"/usr/local/go">>}]

InitDepth == InitIn(InDepth)
NextDepth ==
    \/ NewIn(InDepth)
    \/ NewfIn(InDepth)
    \/ NewSkipIn(InDepth)
    \/ NewSkipfIn(InDepth)
    \/ WrapIn(InDepth)
    \/ WrapfIn(InDepth)
    \/ WrapSkipIn(InDepth)
    \/ WrapSkipfIn(InDepth)
    \/ NewCodeIn(InDepth)
    \/ NewCodefIn(InDepth)
    \/ NewCodeSkipIn(InDepth)
    \/ NewCodeSkipfIn(InDepth)
    \/ WrapCodeIn(InDepth)
    \/ WrapCodefIn(InDepth)
    \/ WrapCodeSkipIn(InDepth)
    \/ WrapCodeSkipfIn(InDepth)
    \/ NewWithOptionIn(InDepth)
    \/ NewOptionIn(InDepth)
SpecDepth == InitDepth /\ [][NextDepth]_vars

\* Codes: the details are nil and three values; WithCode is given a
\* predefined code, the nil Code, or the code the call before returned.
Details == {"nil", "d1", "d2", "d3"}

InitCode == InitIn(InCodes)

Call_WithCodeCode ==
    \E c \in {predefinedCodes[n] : n \in DOMAIN predefinedCodes} \cup {NoCode}
             \cup (IF last.op \in {"WithCode", "code.New"} /\ "isNil" \in DOMAIN last.res
                   THEN {last.res} ELSE {}),
       d \in Details : Call_WithCode(c, d)

Call_code_NewCode ==
    \E c \in {-1, 65, 1001}, m \in {<<>>, <<"Not Found">>, <<"Custom">>}, d \in Details :
        Call_code_New(c, m, d)

NextCode ==
    \/ Call_WithCodeCode
    \/ Call_code_NewCode
SpecCode == InitCode /\ [][NextCode]_vars

\* Current: any error may be wrapped or copied; the foreign errors are
\* plain ones and currenters that hold any error.
InCurrent ==
    [max |-> MaxErrors, texts |-> {<<"a">>}, ftexts |-> {<<"x">>},
     formats |-> {<<"%s">>}, args |-> {<< <<"a">> >>}, joins |-> {<< <<"a">> >>},
     codes |-> {CodeNil, CodeNotFound}, skips |-> {0}, stacks |-> {MainStack},
     chain |-> FALSE, optStack |-> {TRUE}, optCodes |-> {NoCode},
     fkinds |-> {"plain", "currenter"}, fcodes |-> {NoCode}, eqs |-> {"none"},
     modes |-> {"brief"}, goroots |-> {<<"/usr/local/go">>}]

InitCurrent == InitIn(InCurrent)
NextCurrent ==
    \/ NewIn(InCurrent)
    \/ WrapIn(InCurrent)
    \/ WrapCodeIn(InCurrent)
    \/ NewForeignIn(InCurrent)
    \/ CurrentIn(InCurrent)
SpecCurrent == InitCurrent /\ [][NextCurrent]_vars

\* Package command on its own: the parser is untouched at first; the
\* program calls Init with and without arguments and the getters, and may
\* assign os.Args.
CommandLines ==
    {<<>>,
     << <<"app">> >>,
     << <<"app">>, <<"a">>, <<"b">> >>,
     << <<"app">>, <<"-", "-", "x", "=", "1">>, <<"a">> >>,
     << <<"-", "x">>, <<"1">> >>}

InitArgs ==
    {<<>>, << <<"b">> >>, << <<"-", "-", "x">>, <<"a">>, <<"b">>, <<"a">> >>}

InitCommand ==
    /\ heap = <<>>
    /\ last = [op |-> "start"]
    /\ stackModeConfigured = "brief"
    /\ goRootForFilter = <<"/usr/local/go">>
    /\ started = TRUE
    /\ commandRev \in Revisions
    /\ osArgs \in CommandLines
    /\ environ = EmptyMap
    /\ defaultParsedArgs = <<>>
    /\ defaultParsedOptions = EmptyMap
    /\ initialized = FALSE
    /\ predefinedCodes = PredefinedCodes
    /\ NoMutexNoReader

Call_InitCommand == \E args \in InitArgs : Call_Init(args)

Call_GetArgCommand ==
    \E index \in {-1, 0, 1, 2, 3}, def \in {<<>>, << <<"d">> >>, << <<"d">>, <<"e">> >>} :
        Call_GetArg(index, def)

Call_GetOptCommand ==
    \E name \in {<<"x">>, <<"y">>}, def \in {<<>>, << <<"d">> >>} : Call_GetOpt(name, def)

Call_ContainsOptCommand == \E name \in {<<"x">>, <<"y">>} : Call_ContainsOpt(name)

SetOsArgsCommand == \E args \in CommandLines : SetOsArgs(args)

NextCommand ==
    \/ Call_InitCommand
    \/ Call_GetArgCommand
    \/ Call_GetArgAll
    \/ Call_GetOptCommand
    \/ Call_ContainsOptCommand
    \/ SetOsArgsCommand
SpecCommand == InitCommand /\ [][NextCommand]_vars

\* The error and command packages at rest, for the programs that use
\* neither.
LibraryIdle ==
    /\ heap = <<>>
    /\ last = [op |-> "start"]
    /\ stackModeConfigured = "brief"
    /\ goRootForFilter = <<"/usr/local/go">>
    /\ started = TRUE
    /\ commandRev = "second"
    /\ osArgs = << <<"app">> >>
    /\ environ = EmptyMap
    /\ defaultParsedArgs = <<>>
    /\ defaultParsedOptions = EmptyMap
    /\ initialized = FALSE
    /\ predefinedCodes = PredefinedCodes

ReaderIdle ==
    /\ ioRev = "first"
    /\ rc = NewReadCloser(<<>>, FALSE)
    /\ got = <<>>

\* The arguments New is called with; only the first one is looked at.
SafeArgs == {<<>>, <<FALSE>>, <<TRUE>>, <<FALSE, TRUE>>, <<TRUE, FALSE>>}

\* A mutex of either type shared by goroutines that call Lock and Unlock,
\* RLock and RUnlock in pairs.
InitMutex ==
    /\ LibraryIdle
    /\ ReaderIdle
    /\ newArgs \in SafeArgs
    /\ \E type \in MutexTypes : mu = Mutex_New(type, newArgs)
    /\ pc = [g \in Goroutines |-> "idle"]
    /\ fatal = FALSE

LockIn == \E g \in Goroutines : Lock(g)
Lock_ReturnIn == \E g \in Goroutines : Lock_Return(g)
UnlockIn == \E g \in Goroutines : Unlock(g)
RLockIn == \E g \in Goroutines : RLock(g)
RLock_ReturnIn == \E g \in Goroutines : RLock_Return(g)
RUnlockIn == \E g \in Goroutines : RUnlock(g)
Unlock_NoLockIn == \E g \in Goroutines : Unlock_NoLock(g)
RUnlock_NoRLockIn == \E g \in Goroutines : RUnlock_NoRLock(g)

NextMutex ==
    \/ LockIn
    \/ Lock_ReturnIn
    \/ UnlockIn
    \/ RLockIn
    \/ RLock_ReturnIn
    \/ RUnlockIn
SpecMutex == InitMutex /\ [][NextMutex]_vars

\* The same, with goroutines that also call Unlock and RUnlock without the
\* Lock or RLock before it.
InitUnpaired == InitMutex
NextUnpaired ==
    \/ LockIn
    \/ Lock_ReturnIn
    \/ UnlockIn
    \/ RLockIn
    \/ RLock_ReturnIn
    \/ RUnlockIn
    \/ Unlock_NoLockIn
    \/ RUnlock_NoRLockIn
SpecUnpaired == InitUnpaired /\ [][NextUnpaired]_vars

\* A ReadCloser of either revision over contents of distinct bytes, read
\* with buffers of every length up to MaxBuf, the empty one included, until
\* the caller holds MaxGot bytes.
MaxContent == 3
MaxBuf == 4
MaxGot == 7

Contents == {[i \in 1 .. n |-> i] : n \in 0 .. MaxContent}

MutexIdle ==
    /\ mu = [type |-> "none", mutex |-> NilSync]
    /\ newArgs = <<>>
    /\ pc = [g \in Goroutines |-> "idle"]
    /\ fatal = FALSE

InitReader ==
    /\ LibraryIdle
    /\ MutexIdle
    /\ ioRev \in ReaderRevisions
    /\ \E content \in Contents, repeatable \in BOOLEAN :
          rc = NewReadCloser(content, repeatable)
    /\ got = <<>>

Call_ReadReader == Len(got) < MaxGot /\ \E lenP \in 0 .. MaxBuf : Call_Read(lenP)

NextReader ==
    \/ Call_ReadReader
    \/ Call_Close
SpecReader == InitReader /\ [][NextReader]_vars

----------------------------------------------------------------------------
(* Claims on codes and chains, checked under Spec                          *)

WrapOps == {"Wrap", "Wrapf", "WrapSkip", "WrapSkipf"}
WrapCodeOps == {"WrapCode", "WrapCodef", "WrapCodeSkip", "WrapCodeSkipf"}
NewCodeOps == {"NewCode", "NewCodef", "NewCodeSkip", "NewCodeSkipf"}

\* C1: each of the eight wrapping constructors returns nil when the error
\* it is given is nil, whatever its other arguments.
C1_WrapNilIsNil ==
    (last.op \in WrapOps \cup WrapCodeOps /\ last.err = Nil) => last.res = Nil

\* C1 witness: WrapCodeSkipf was given nil and CodeNotFound after an error
\* had been created, and returned nil.
C1_Witness ==
    /\ last.op = "WrapCodeSkipf" /\ last.err = Nil /\ last.code = CodeNotFound
    /\ last.res = Nil /\ Len(heap) > 0

\* C2: the Code of an error made by NewCode(c, t) is c, and the Code of
\* Wrap(err, t) is the Code of err, so that every Wrap layer over
\* NewCode(c, t) still has code c.
C2_CodeKeptByWrap ==
    /\ last.op \in NewCodeOps => Code(last.res) = last.code
    /\ (last.op \in WrapOps /\ last.err # Nil) => Code(last.res) = Code(last.err)

\* C2 witness: Wrap has just made the second layer over an Error whose own
\* code is CodeNotFound, and Code of the result is CodeNotFound.
C2_Witness ==
    /\ last.op = "Wrap" /\ last.res = 3
    /\ heap[3].error = 2 /\ IsError(2) /\ heap[2].error = 1 /\ IsError(1)
    /\ heap[1].error = Nil /\ heap[1].code = CodeNotFound
    /\ Code(3) = CodeNotFound

\* C4: Unwrap of what Wrap(err, t) returned is err itself, nil for nil.
C4_UnwrapOfWrap ==
    last.op = "Wrap" => Unwrap(last.res) = last.err

\* C4 witness: Wrap wrapped an Error that wraps another one, and Unwrap of
\* the result is the Error given.
C4_Witness ==
    /\ last.op = "Wrap" /\ IsError(last.err) /\ heap[last.err].error # Nil
    /\ Unwrap(last.res) = last.err

\* C5 (as claimed): Code of an error, whichever constructor built it, is
\* never the nil Code; where no code is attached it is CodeNil.
C5_CodeNeverNil ==
    \A r \in Refs : ~Code(r).isNil

\* C6 (as claimed): no operation changes an Error that exists.
C6_Immutable ==
    [][\A i \in 1..Len(heap) : heap'[i] = heap[i]]_vars

\* C6 (amended): no operation changes the text, the wrapped error or the
\* stack of an Error that exists, and only SetCode on that Error changes
\* its code.
C6_OnlySetCodeMutates ==
    [][\A i \in 1..Len(heap) :
          /\ heap'[i].text = heap[i].text
          /\ heap'[i].error = heap[i].error
          /\ heap'[i].stack = heap[i].stack
          /\ heap'[i].kind = heap[i].kind
          /\ heap'[i].code # heap[i].code =>
                (last'.op = "SetCode" /\ last'.err = i /\ heap'[i].code = last'.code)]_vars

\* C6 witness: SetCode gave CodeNotFound to an Error that another Error,
\* whose own code is CodeNil, wraps.
C6_Witness ==
    /\ last.op = "SetCode" /\ IsError(last.err)
    /\ heap[last.err].code = CodeNotFound
    /\ \E w \in Live : IsError(w) /\ heap[w].error = last.err /\ heap[w].code = CodeNil

----------------------------------------------------------------------------
(* Claims on texts and rendering, checked under SpecText                   *)

\* A chain made of Errors only, down to one that wraps nothing.
RECURSIVE IsErrorChain(_)
IsErrorChain(r) ==
    IsError(r) /\ (heap[r].error = Nil \/ IsErrorChain(heap[r].error))

\* The innermost error of the chain of r.
RECURSIVE Root(_)
Root(r) == IF IsUnwrapper(r) /\ heap[r].error # Nil THEN Root(heap[r].error) ELSE r

\* The message of an Error alone: its text, or the message of its code.
OwnMessage(r) ==
    IF heap[r].text # <<>> THEN heap[r].text
    ELSE IF heap[r].code.isNil THEN <<>> ELSE heap[r].code.message

\* The own messages along a chain of Errors, outermost first.
RECURSIVE Messages(_)
Messages(r) ==
    IF heap[r].error = Nil THEN <<OwnMessage(r)>>
    ELSE <<OwnMessage(r)>> \o Messages(heap[r].error)

\* C3 (as claimed): Cause of Wrap layers over an Error that wraps nothing
\* is that innermost Error itself.
C3_CauseIsRootError ==
    \A r \in Live :
        (IsErrorChain(r) /\ heap[r].error # Nil) => Cause(r) = Existing(Root(r))

\* C3 (amended): Cause of a chain of Errors is an error newly created by
\* errors.New whose message is the text of the innermost Error; it is not
\* that Error, nor any error created before.
C3_CauseCopiesRootText ==
    \A r \in Live :
        IsErrorChain(r) => Cause(r) = Fresh(heap[Root(r)].text)

\* C3 witness: Wrap(Wrap(New("a"), "b"), "c") in shape, with "a" innermost,
\* and Cause of it is a new error that reads "a".
C3_Witness ==
    /\ Len(heap) = 3 /\ IsErrorChain(3)
    /\ heap[3].error = 2 /\ heap[2].error = 1
    /\ heap[1].text = <<"a">> /\ heap[2].text = <<"b">> /\ heap[3].text # <<"a">>
    /\ Cause(3) = Fresh(<<"a">>)

\* C7 (as claimed): %-v and %-s print the own message of the Error and
\* nothing of the errors it wraps.
C7_MinusFlagOwnMessage ==
    \A r \in Live : \A verb \in {"s", "v"} :
        IsError(r) => Error_Format(r, {"-"}, verb) = OwnMessage(r)

\* C8: Error() is the own message of the Error (its text, or the message
\* of its code where the text is empty); where it wraps a cause, ": " and
\* the cause's Error() follow, and an empty own message leaves the cause's
\* Error() alone.  A chain of Errors whose messages are all non-empty
\* reads as these messages joined by ": ".
C8_ErrorString ==
    \A r \in Live :
        IsError(r) =>
            /\ heap[r].error = Nil => Error_Error(r) = OwnMessage(r)
            /\ (heap[r].error # Nil /\ OwnMessage(r) # <<>>) =>
                  Error_Error(r) = OwnMessage(r) \o <<":", " ">> \o ErrorOf(heap[r].error)
            /\ (heap[r].error # Nil /\ OwnMessage(r) = <<>>) =>
                  Error_Error(r) = ErrorOf(heap[r].error)
            /\ (IsErrorChain(r) /\ \A i \in 1..Len(Messages(r)) : Messages(r)[i] # <<>>) =>
                  Error_Error(r) = Join(Messages(r), <<":", " ">>)

\* C8 witness: WrapCode(CodeNotFound, Wrap(New("a"), ""), "") reads
\* "Not Found: a": the code's message stands in for the empty text of the
\* outermost Error, and the middle Error, with neither, adds nothing.
C8_Witness ==
    /\ Len(heap) = 3 /\ IsErrorChain(3) /\ heap[3].error = 2 /\ heap[2].error = 1
    /\ heap[3].text = <<>> /\ heap[3].code = CodeNotFound
    /\ heap[2].text = <<>> /\ heap[2].code = CodeNil
    /\ heap[1].text = <<"a">>
    /\ Error_Error(3) = <<"Not Found", ":", " ", "a">>

----------------------------------------------------------------------------
(* Claims on equality, checked under SpecEqual                             *)

\* C10: Equal(err, target) holds for identical errors; otherwise the
\* comparator of err decides where err has one, else the comparator of
\* target, and without any comparator the errors are not equal: two
\* Errors created separately are not, whatever their text and code.
C10_Equal ==
    \A e \in Refs : \A t \in Refs :
        /\ e = t => Equal(e, t)
        /\ (e # t /\ IsEqualer(e)) =>
              /\ heap[e].eq = "always" => Equal(e, t)
              /\ heap[e].eq = "never" => ~Equal(e, t)
              /\ heap[e].eq = "text" =>
                    (Equal(e, t) <=> (t # Nil /\ ErrorOf(t) = heap[e].text))
        /\ (e # t /\ ~IsEqualer(e) /\ IsEqualer(t)) =>
              /\ heap[t].eq = "always" => Equal(e, t)
              /\ heap[t].eq = "never" => ~Equal(e, t)
              /\ heap[t].eq = "text" =>
                    (Equal(e, t) <=> (e # Nil /\ ErrorOf(e) = heap[t].text))
        /\ (e # t /\ ~IsEqualer(e) /\ ~IsEqualer(t)) => ~Equal(e, t)

\* C10 witness: two Errors with the same text and code that are not Equal,
\* and an equaler that accepts everything, Equal to one of them from
\* either side.
C10_Witness ==
    \E e \in Live : \E t \in Live : \E q \in Live :
        /\ e # t /\ IsError(e) /\ IsError(t)
        /\ heap[e].text = heap[t].text /\ heap[e].code = heap[t].code
        /\ ~Equal(e, t)
        /\ IsEqualer(q) /\ heap[q].eq = "always" /\ Equal(q, e) /\ Equal(e, q)

----------------------------------------------------------------------------
(* Claims on stacks, checked under SpecStack                               *)

\* The frames captured for the Errors of the chain of r.
RECURSIVE CapturedFrames(_)
CapturedFrames(r) ==
    IF ~IsError(r) THEN {}
    ELSE {heap[r].stack[i] : i \in 1..Len(heap[r].stack)} \cup CapturedFrames(heap[r].error)

----------------------------------------------------------------------------
(* Claims on the stack mode, checked under SpecMode                        *)

\* The command lines of ModeCommandLines that give the stack-mode option,
\* and those among them that give it the value "detail".
WithModeOption == {a \in ModeCommandLines :
                      \E i \in 1..Len(a) : Contains(a[i], <<"loom.error.stack.mode">>)}
WithModeOptionDetail ==
    {a \in WithModeOption :
        \/ \E i \in 1..Len(a) : Contains(a[i], <<"loom.error.stack.mode", "=", "detail">>)
        \/ \E i \in 1..(Len(a) - 1) : a[i] = ModeOption /\ a[i + 1] = <<"detail">>}

\* The stack-mode setting: the option of the command line where it is
\* given, else the environment variable.
ModeSettingIsDetail ==
    IF osArgs \in WithModeOption THEN osArgs \in WithModeOptionDetail
    ELSE /\ "LOOM_ERROR_STACK_MODE" \in DOMAIN environ
         /\ environ["LOOM_ERROR_STACK_MODE"] = <<"detail">>

\* C11: once the init functions have run the stack mode is brief or
\* detail, and it is detail exactly when the stack-mode setting is
\* "detail": absent, empty and unrecognised settings leave it brief, and
\* the deprecated brief setting changes nothing.
C11_StackModeFromSetting ==
    /\ stackModeConfigured \in {"brief", "detail"}
    /\ started => (stackModeConfigured = "detail" <=> ModeSettingIsDetail)

\* C11 witness: the mode is detail after a start with the deprecated brief
\* setting switched on, in the environment or on the command line.
C11_Witness ==
    /\ started /\ stackModeConfigured = "detail"
    /\ "LOOM_ERROR_BRIEF" \in DOMAIN environ /\ environ["LOOM_ERROR_BRIEF"] = <<"1">>
    /\ BriefOption \in {osArgs[i] : i \in 1..Len(osArgs)}
    /\ last.op = "Init"

----------------------------------------------------------------------------
(* Further claims on stacks, checked under SpecStack                       *)

\* A frame of the loom module that neither the filter of the package's
\* own path nor the one of GOROOT drops.
IsLoomFrameKeptByOthers(p) ==
    LET file == FuncForPC(p).file IN
    /\ FuncForPC(p).ok
    /\ Contains(file, StackFilterKeyForLoom)
    /\ ~Contains(file, stackFilterKeyLocal)
    /\ ~(goRootForFilter # <<>> /\ HasPrefix(file, goRootForFilter))

\* C12: in brief mode the string Stack() returns names no file of the loom
\* module; in detail mode every captured frame of the loom module that the
\* filters of the package's own path and of GOROOT let pass is named in it.
C12_LoomFramesByMode ==
    \A r \in Live :
        IsError(r) =>
            /\ stackModeConfigured = "brief" =>
                  ~Contains(Error_Stack(r), StackFilterKeyForLoom)
            /\ stackModeConfigured = "detail" =>
                  \A p \in CapturedFrames(r) :
                      IsLoomFrameKeptByOthers(p) =>
                          Contains(Error_Stack(r), stackLine(p).FileLine)

\* C12 witness: in detail mode a chain of two Errors that both captured the
\* frame of the loom module, which Stack() names.
C12_Witness ==
    /\ stackModeConfigured = "detail"
    /\ Len(heap) = 2 /\ IsErrorChain(2) /\ heap[2].error = 1
    /\ \A i \in 1..2 : \E j \in 1..Len(heap[i].stack) : heap[i].stack[j] = "loomx"
    /\ Contains(Error_Stack(2), stackLine("loomx").FileLine)

----------------------------------------------------------------------------
(* Claims on the depth of captured stacks, checked under SpecDepth         *)

\* C13: the stack of every Error holds 64 program counters at most,
\* however deep the caller of its constructor and whatever the skip count.
C13_StackAtMost64 ==
    \A r \in Live : IsError(r) => Len(heap[r].stack) <= 64

\* C13 witness: NewSkip called 65 frames deep with a negative skip count,
\* so that 69 frames lie above runtime.Callers: the first 64 are captured,
\* the frame of runtime.Callers first.
C13_Witness ==
    /\ last.op = "NewSkip"
    /\ Len(heap[last.res].stack) = 64
    /\ heap[last.res].stack[1] = "rtcallers"
    /\ heap[last.res].stack[64] = "run"

----------------------------------------------------------------------------
(* Claims on codes as values, checked under SpecCode                       *)

\* C14: no call changes a predefined code, and WithCode(code, detail)
\* returns a code with the number and the message of code and the detail
\* given, code.New one with the three values given.
C14_CodesImmutable ==
    [][/\ predefinedCodes' = predefinedCodes
       /\ (last'.op = "WithCode" /\ ~last'.code.isNil) =>
              /\ last'.res.code = last'.code.code
              /\ last'.res.message = last'.code.message
              /\ last'.res.detail = last'.detail
              /\ ~last'.res.isNil
       /\ last'.op = "code.New" =>
              last'.res = localCode(last'.code, last'.message, last'.detail)]_vars

\* C14 witness: WithCode(CodeNotFound, d1) has returned 65, "Not Found"
\* with detail d1, and CodeNotFound still has no detail.
C14_Witness ==
    /\ last.op = "WithCode" /\ last.code = CodeNotFound /\ last.detail = "d1"
    /\ last.res = localCode(65, <<"Not Found">>, "d1")
    /\ predefinedCodes.CodeNotFound = localCode(65, <<"Not Found">>, "nil")

----------------------------------------------------------------------------
(* Further claims on chains, checked under SpecText                        *)

\* Every level from r down to the error f it ends in is an Error.
RECURSIVE ErrorsAbove(_, _)
ErrorsAbove(r, f) ==
    IsError(r) /\ (heap[r].error = f \/ (IsError(heap[r].error) /\ ErrorsAbove(heap[r].error, f)))

\* C15: where Errors are layered over a foreign error that has neither a
\* Cause nor an Unwrap method, Cause of any of the layers is that foreign
\* error itself.
C15_CauseIsForeignRoot ==
    \A r \in Live : \A f \in Live :
        (~IsError(f) /\ ~IsCauser(f) /\ ~IsUnwrapper(f) /\ ErrorsAbove(r, f)) =>
            Cause(r) = Existing(f)

\* C15 witness: two layers over a plain foreign error.
C15_Witness ==
    /\ Len(heap) = 3 /\ heap[1].kind = "plain" /\ ErrorsAbove(3, 1)
    /\ heap[3].error = 2 /\ last.op = "Wrap" /\ last.res = 3
    /\ Cause(3) = Existing(1)

----------------------------------------------------------------------------
(* Claims on formatting with the stack, checked under SpecStack            *)

\* C16: %+v writes Error(), a newline and what Stack() returns.  That is
\* never empty: it starts with "1. ", Error() again and a newline, and
\* frames are listed below the messages exactly when a frame captured
\* along the chain passes the filters.
C16_PlusV ==
    \A r \in Live :
        IsError(r) =>
            /\ Error_Format(r, {"+"}, "v") = Error_Error(r) \o <<"\n">> \o Error_Stack(r)
            /\ Error_Stack(r) # <<>>
            /\ HasPrefix(Error_Format(r, {"+"}, "v"),
                         Error_Error(r) \o <<"\n", "1", ". ">> \o Error_Error(r) \o <<"\n">>)
            /\ (\E i \in 1..Len(StackInfos(r)) : Len(StackInfos(r)[i].Lines) > 0)
                  <=> (\E p \in CapturedFrames(r) : KeepsFrame(p, IsStackModeBrief))

\* C16 witness: New("a") called by main.run called by main.main, GOROOT
\* known: %+v writes the message, then the numbered message and the two
\* frames of the program.
C16_Witness ==
    /\ last.op = "New" /\ last.res = 1
    /\ Error_Format(1, {"+"}, "v") =
          <<"a", "\n",
            "1", ". ", "a", "\n",
            "   ", "1", ").", "  ", "main.run", "\n        ", "/app/run.go", ":", "2", "7", "\n",
            "   ", "2", ").", "  ", "main.main", "\n        ", "/app/main.go", ":", "1", "0", "\n">>

----------------------------------------------------------------------------
(* Further claims on codes, checked under Spec                             *)

\* The errors reached from r by Unwrap, r included.
RECURSIVE UnwrapChain(_)
UnwrapChain(r) == IF r = Nil THEN {} ELSE {r} \cup UnwrapChain(Unwrap(r))

\* C17: HasCode(err, c) holds exactly when err or an error reached from it
\* by repeated Unwrap carries codes and reports c as its code; it is
\* false for the nil error.
C17_HasCode ==
    \A c \in {CodeNil, CodeNotFound, CodeInternalError, NoCode} :
        /\ ~HasCode(Nil, c)
        /\ \A r \in Live :
              HasCode(r, c) <=> \E x \in UnwrapChain(r) : IsCoder(x) /\ Code(x) = c

\* C17 witness: WrapCode(CodeNotFound, New(...)) has CodeNotFound itself
\* and CodeNil by the Error it wraps, and has not CodeInternalError.
C17_Witness ==
    \E w \in Live :
        /\ IsError(w) /\ heap[w].code = CodeNotFound
        /\ IsError(heap[w].error) /\ Code(heap[w].error) = CodeNil
        /\ HasCode(w, CodeNotFound) /\ HasCode(w, CodeNil)
        /\ ~HasCode(w, CodeInternalError)

----------------------------------------------------------------------------
(* Claims on Current, checked under SpecCurrent                            *)

\* What Current does to nil and to an Error: nil for nil; for an Error a
\* new Error with the text, the stored code and the stack of err that
\* wraps nothing; and no error that exists is changed.
CurrentOfError ==
    /\ \A i \in 1..Len(heap) : heap'[i] = heap[i]
    /\ last'.err = Nil => last'.res = Nil
    /\ IsError(last'.err) =>
          /\ last'.res = Len(heap) + 1 /\ Len(heap') = Len(heap) + 1
          /\ heap'[last'.res].kind = "Error"
          /\ heap'[last'.res].text = heap[last'.err].text
          /\ heap'[last'.res].code = heap[last'.err].code
          /\ heap'[last'.res].stack = heap[last'.err].stack
          /\ heap'[last'.res].error = Nil

\* C18 (as claimed): Current returns nil for nil, the copy without wrapped
\* error for an Error, and every foreign error itself.
C18_CurrentForeignItself ==
    [][last'.op = "Current" =>
          /\ CurrentOfError
          /\ (last'.err # Nil /\ ~IsError(last'.err)) => last'.res = last'.err]_vars

\* C18 (amended): as claimed for nil and for an Error; a foreign error
\* that has a Current method answers with what that method returns, and
\* only a foreign error without one is returned itself.
C18_Current ==
    [][last'.op = "Current" =>
          /\ CurrentOfError
          /\ (last'.err # Nil /\ ~IsError(last'.err) /\ ~IsCurrenter(last'.err)) =>
                last'.res = last'.err
          /\ (~IsError(last'.err) /\ IsCurrenter(last'.err)) =>
                last'.res = heap[last'.err].error]_vars

\* C18 witness: Current of an Error with code CodeNotFound that wraps an
\* error has returned a new Error that wraps nothing, and the Error still
\* wraps what it did.
C18_Witness ==
    /\ last.op = "Current" /\ IsError(last.err) /\ last.res # last.err
    /\ heap[last.err].error # Nil /\ heap[last.err].code = CodeNotFound
    /\ IsError(last.res) /\ Unwrap(last.res) = Nil
    /\ heap[last.res].code = CodeNotFound /\ heap[last.res].text = heap[last.err].text

----------------------------------------------------------------------------
(* Claims on package command, checked under SpecCommand                    *)

\* C19 (as claimed): GetArg never panics; it returns the positional
\* argument at index where 0 <= index < len, and for every other index,
\* negative ones included, the first default or "".
C19_GetArg ==
    last.op = "GetArg" =>
        /\ ~last.res.panic
        /\ last.res.value =
              IF 0 <= last.index /\ last.index < Len(defaultParsedArgs)
              THEN defaultParsedArgs[last.index + 1]
              ELSE IF Len(last.def) > 0 THEN last.def[1] ELSE <<>>

\* The calls that initialise the parser, and those among them that give
\* Init no arguments.
GetterOps == {"GetArg", "GetArgAll", "GetOpt", "ContainsOpt", "GetOptWithEnv"}
IsInitCall(l) == l.op = "Init" \/ l.op \in GetterOps
IsNoArgCall(l) == l.op \in GetterOps \/ (l.op = "Init" /\ l.args = <<>>)

\* The parser counts as initialised: by what it holds in the first
\* revision, by its flag in the second.
ParserInitialised ==
    IF commandRev = "first"
    THEN Len(defaultParsedArgs) > 0 \/ DOMAIN defaultParsedOptions # {}
    ELSE initialized

ParserUnchanged ==
    /\ defaultParsedArgs' = defaultParsedArgs
    /\ defaultParsedOptions' = defaultParsedOptions

\* C20: a getter or Init() that follows a call that initialised the parser
\* leaves the parsed arguments and options unchanged; so does every getter
\* and Init() on an initialised parser, whatever os.Args has become; and
\* Init with arguments replaces them by what these arguments parse to.
C20_InitIdempotent ==
    [][/\ (IsInitCall(last) /\ IsNoArgCall(last')) => ParserUnchanged
       /\ (ParserInitialised /\ IsNoArgCall(last')) => ParserUnchanged
       /\ (last'.op = "Init" /\ last'.args # <<>>) =>
              /\ defaultParsedArgs' = ParseUsingDefaultAlgorithm(last'.args).args
              /\ defaultParsedOptions' = ParseUsingDefaultAlgorithm(last'.args).options]_vars

\* C20 witness: after Init("--x", "a", "b", "a") a call of Init() has left
\* the arguments b, a and the option x = a in place, which are not what
\* os.Args holds.
C20_Witness ==
    /\ last.op = "Init" /\ last.args = <<>>
    /\ defaultParsedArgs = << <<"b">>, <<"a">> >>
    /\ DOMAIN defaultParsedOptions = {<<"x">>} /\ defaultParsedOptions[<<"x">>] = <<"a">>
    /\ Len(osArgs) > 0 /\ osArgs[1] = <<"app">>

----------------------------------------------------------------------------
(* Claims on the mutexes, checked under SpecMutex and SpecUnpaired         *)

\* New was called with safe = true.
CreatedSafe == Len(newArgs) > 0 /\ newArgs[1]

\* The goroutines between a completed Lock and its Unlock.
Holders == {g \in Goroutines : pc[g] = "locked"}

\* C21: a Mutex created with safe = true reports IsSafe() = true, and at
\* most one goroutine is between a completed Lock and its matching Unlock.
C21_MutualExclusion ==
    (mu.type = "Mutex" /\ CreatedSafe) =>
        /\ IsSafe(mu)
        /\ Cardinality(Holders) <= 1
        /\ (Holders # {}) = mu.mutex.locked

\* C21 witness: on a safe Mutex one goroutine holds the lock while the two
\* others wait in Lock.
C21_Witness ==
    /\ mu.type = "Mutex" /\ CreatedSafe
    /\ Cardinality(Holders) = 1
    /\ Cardinality({g \in Goroutines : pc[g] = "Lock"}) >= 2

\* C22: a Mutex or RWMutex created without safe = true reports IsSafe() =
\* false; no goroutine ever waits in Lock or RLock and an idle goroutine can
\* always complete Lock, whoever has locked; Lock, Unlock, RLock and RUnlock
\* leave the mutex as it is, and Unlock without a Lock ends in no fatal
\* error.
C22_UnsafeNoOps ==
    /\ [](~CreatedSafe =>
            /\ ~IsSafe(mu)
            /\ ~fatal
            /\ \A g \in Goroutines :
                  /\ pc[g] \notin {"Lock", "RLock"}
                  /\ pc[g] = "idle" => ENABLED (Lock(g) /\ pc'[g] = "locked"))
    /\ [][~CreatedSafe => (mu' = mu /\ fatal' = fatal)]_vars

\* C22 witness: on an unsafe mutex all goroutines are past Lock at once.
C22_Witness ==
    /\ ~CreatedSafe
    /\ Cardinality(Holders) = NumGoroutines

----------------------------------------------------------------------------
(* Claims on duplicate locations in Stack(), checked under SpecStack       *)

\* The locations of the lines of one level.
FileLines(lines) == {lines[k].FileLine : k \in 1 .. Len(lines)}

\* The positions (level, line) of the infos that show location loc.
Occurrences(infos, loc) ==
    UNION {{<<i, k>> : k \in {n \in 1 .. Len(infos[i].Lines) : infos[i].Lines[n].FileLine = loc}} :
              i \in 1 .. Len(infos)}

\* C23: in what Stack() prints for an Error, every location stands at most
\* once over all levels, and a level shows a location of its captured stack
\* exactly when no deeper level has that location.
C23_LocationsOnce ==
    \A r \in Live :
        IsError(r) =>
            LET before == StackInfosLoop(r, 1)
                after  == StackInfos(r)
            IN /\ Len(after) = Len(before)
               /\ \A i \in 1 .. Len(before) :
                     /\ FileLines(after[i].Lines) =
                            {loc \in FileLines(before[i].Lines) :
                                \A j \in (i + 1) .. Len(before) :
                                    loc \notin FileLines(before[j].Lines)}
                     /\ \A loc \in FileLines(after[i].Lines) :
                            Cardinality(Occurrences(after, loc)) = 1

\* C23 witness: an Error wraps an Error, /app/main.go:10 is in the captured
\* stacks of both and twice in that of the inner one, and Stack() shows it
\* once, in the inner level.
C23_Witness ==
    \E r \in Live :
        /\ IsError(r) /\ IsError(heap[r].error)
        /\ LET loc    == stackLine("main").FileLine
               before == StackInfosLoop(r, 1)
               after  == StackInfos(r)
           IN /\ Cardinality(Occurrences(before, loc)) >= 3
              /\ loc \notin FileLines(after[1].Lines)
              /\ Cardinality(Occurrences(after, loc)) = 1
              /\ \E k \in 1 .. Len(after[2].Lines) : <<2, k>> \in Occurrences(after, loc)

----------------------------------------------------------------------------
(* Claims on ReadCloser, checked under SpecReader                          *)

\* A Read reports io.EOF exactly when it leaves the position at the end of
\* the content, and n is the number of bytes it delivered.
ReadReportsEnd ==
    last.op = "Read" =>
        /\ last.n = Len(last.data)
        /\ (last.err = "EOF") = (rc.index = Len(rc.content))

\* C24: for a reader that is not repeatable, what the Reads have returned
\* is the content up to the position, so the whole content, once, when the
\* end is reached; the Read that reaches the end returns io.EOF, and every
\* Read after it returns 0 bytes and io.EOF.
C24_ReadOnce ==
    /\ [](~rc.repeatable =>
            /\ rc.index \in 0 .. Len(rc.content)
            /\ got = SubSeq(rc.content, 1, rc.index)
            /\ ReadReportsEnd)
    /\ [][(~rc.repeatable /\ rc.index = Len(rc.content) /\ last'.op = "Read") =>
              /\ last'.n = 0 /\ last'.data = <<>> /\ last'.err = "EOF"
              /\ got' = got /\ rc' = rc]_vars

\* C24 witness: the whole content of MaxContent bytes was read in several
\* Reads, and a Read after the end returned 0 and io.EOF.
C24_Witness ==
    /\ ~rc.repeatable
    /\ Len(rc.content) = MaxContent /\ got = rc.content
    /\ last.op = "Read" /\ last.p > 0 /\ last.n = 0 /\ last.err = "EOF"

\* C25: the position of every reader stays between 0 and the length of the
\* content.  For a repeatable reader with content, what the Reads have
\* returned is the content over and over, a Read that reaches the end
\* returns io.EOF, and a Read at the end into a buffer with room starts
\* with the first byte.
C25_ReadAgain ==
    /\ [](/\ rc.index \in 0 .. Len(rc.content)
          /\ (rc.repeatable /\ rc.content # <<>>) =>
                /\ \A k \in 1 .. Len(got) :
                      got[k] = rc.content[((k - 1) % Len(rc.content)) + 1]
                /\ ReadReportsEnd)
    /\ [][(/\ rc.repeatable /\ rc.content # <<>>
           /\ rc.index = Len(rc.content)
           /\ last'.op = "Read" /\ last'.p > 0) =>
              /\ last'.n = Min(last'.p, Len(rc.content))
              /\ last'.data = SubSeq(rc.content, 1, last'.n)
              /\ rc'.index = last'.n]_vars

\* C25 witness: a repeatable reader has delivered its content of
\* MaxContent bytes twice, and the Read that ended the second pass
\* returned io.EOF.
C25_Witness ==
    /\ rc.repeatable
    /\ Len(rc.content) = MaxContent /\ got = rc.content \o rc.content
    /\ last.op = "Read" /\ last.n > 0 /\ last.err = "EOF"

====
